---- MODULE Spec2Model ----
(***************************************************************************)
(* Model of the prompt concurrency and lifecycle controller of the         *)
(* opencode-telegram-bridge: the per-chat prompt guard                     *)
(* (src/src/prompt-guard.ts) and the orchestration around it in            *)
(* src/src/bot.ts (runPrompt, /abort, the pending-question registry).      *)
(*                                                                         *)
(* Identities: an AbortController, a timer handle, a session id, a message *)
(* id and a question request id are positive integers; 0 stands for        *)
(* null / undefined.  A JS Map is a function whose DOMAIN is its key set.  *)
(***************************************************************************)
EXTENDS Integers, Sequences, FiniteSets, Bags, TLC

\* ------------------------------------------------------------------ bounds
Chats == {1, 2}            \* chat ids (ctx.chat.id)
MaxCtl == 3                \* AbortControllers created by tryStart in one run
MsgIds == {1, 2}           \* replyToMessageId values offered to the guard alone
MaxMsgs == 4               \* Telegram updates in one run of the prompt specification
MaxSessions == 2           \* sessions the backend creates in one run
MaxUpdates == 3            \* Telegram updates in one run of the question specification
MaxReqs == 2               \* question requests the backend sends in one run
MaxLen == 5                \* length of a text handed to splitTelegramMessage
MaxLimit == 5              \* limit handed to splitTelegramMessage
SessionIds == {1}          \* session ids offered to the guard alone

\* ------------------------------------------------------------------ state
VARIABLES
  guard,           \* prompt-guard.ts:25-34, the state of createPromptGuard
  elapsed,         \* timers (in scheduling order) whose delay timeoutMs has passed
  onTimeoutCalls,  \* history: number of onTimeout() invocations per controller
  ended,           \* history: how each removed entry was removed
  lastCall         \* history: the last guard operation and what it returned

gvars == <<guard, elapsed, onTimeoutCalls, ended, lastCall>>

VARIABLES
  alive,           \* the bridge process is running
  msgCount,        \* Telegram updates so far; update k carries message_id k
  tasks,           \* message_id -> the background task runPrompt started for it
  store,           \* opencode.ts:308-340, the session store of the bridge
  nextSid,         \* id the backend gives to the next session it creates
  sent,            \* messages the last step handed to Telegram
  calls            \* OpenCode API calls the last step issued

pvars == <<alive, msgCount, tasks, store, nextSid, sent, calls>>

VARIABLES
  pendingQuestions,        \* bot.ts:137, request id -> open question
  pendingQuestionsByChat,  \* bot.ts:138, chat id -> request id
  handlers,        \* bag of update handlers suspended at a backend await
  evHandler,       \* the onQuestionAsked call the event loop is waiting for
  nextReq,         \* id the backend gives to its next question request
  lastEvent        \* the update, backend event or settled call the last step handled

qregs == <<pendingQuestions, pendingQuestionsByChat, handlers, evHandler,
           nextReq>>

qvars == <<qregs, lastEvent>>

VARIABLES
  pendingPermissions,  \* bot.ts:136, request id -> open permission request
  evPermission         \* the onPermissionAsked call the event loop is waiting for

mvars == <<pendingPermissions, evPermission>>

VARIABLES
  split,           \* telegram.ts:3-17, an input of splitTelegramMessage and its result
  returned         \* what the last call of a session store method returned

VARIABLES
  chatModels,      \* state.ts:98-137, (chat id, project directory) -> pinned model
  storedModel      \* bot.ts:764, message_id -> the model its task read, if any

cvars == <<chatModels, storedModel>>

VARIABLES
  tapped           \* the sub-question shown on the keyboard of the last pressed button

VARIABLES
  loop             \* opencode.ts:611-668, the run loop of startEventStream

VARIABLES
  replies          \* bot.ts:140-157, message_id -> the sendReply call of its task

uvars == <<split, returned, cvars, tapped, loop, replies>>

\* What the prompt and question handlers leave alone.  For the pinned models
\* that holds while none is pinned and the response of session.prompt
\* carries no info, so that promptFromChat returns model null
\* (opencode.ts:468-473).
xvars == <<mvars, uvars>>

vars == <<gvars, pvars, qvars, mvars, uvars>>

\* ---------------------------------------------------------------- helpers
\* Map.set / Map.delete on a function used as a JS Map.
MapSet(m, k, v) == [x \in DOMAIN m \cup {k} |-> IF x = k THEN v ELSE m[x]]
MapDelete(m, k) == [x \in DOMAIN m \ {k} |-> m[x]]

\* ------------------------------------------------------------ prompt guard
\* Every guard operation is a function from the guard state g to the new
\* guard state and the value returned to the caller.

\* prompt-guard.ts:25-34.  inFlight: chatId -> entry; timers: the setTimeout
\* callbacks scheduled and neither run nor cleared, each with the chatId and
\* abortController its closure captured; aborted: the controllers whose
\* signal.aborted is true; nextCtl: identity of the next new AbortController.
createPromptGuard ==
  [inFlight |-> << >>, timers |-> {}, aborted |-> {}, nextCtl |-> 1]

\* tryStart without the inFlight.has(chatId) test of line 46.
tryStartOverwrites(g, chatId, replyToMessageId) ==
  LET abortController == g.nextCtl
      timeoutId == g.nextCtl
  IN [g |-> [g EXCEPT
            !.nextCtl = @ + 1,
            !.timers = @ \cup {[timeoutId |-> timeoutId, chatId |-> chatId,
                                abortController |-> abortController]},
            !.inFlight = MapSet(@, chatId,
                           [abortController |-> abortController,
                            timeoutId |-> timeoutId,
                            replyToMessageId |-> replyToMessageId,
                            sessionId |-> 0])],
      ret |-> abortController]

\* tryStart without the setTimeout of lines 51-64: the entry has no timer.
tryStartUntimed(g, chatId, replyToMessageId) ==
  IF chatId \in DOMAIN g.inFlight
  THEN [g |-> g, ret |-> 0]
  ELSE LET abortController == g.nextCtl
           timeoutId == g.nextCtl
       IN [g |-> [g EXCEPT
                 !.nextCtl = @ + 1,
                 !.inFlight = MapSet(@, chatId,
                                [abortController |-> abortController,
                                 timeoutId |-> timeoutId,
                                 replyToMessageId |-> replyToMessageId,
                                 sessionId |-> 0])],
           ret |-> abortController]

\* prompt-guard.ts:36-73.  ret = 0 is the null returned when an entry exists.
tryStart(g, chatId, replyToMessageId) ==
  IF chatId \in DOMAIN g.inFlight
  THEN [g |-> g, ret |-> 0]
  ELSE LET abortController == g.nextCtl
           timeoutId == g.nextCtl
       IN [g |-> [g EXCEPT
                 !.nextCtl = @ + 1,
                 !.timers = @ \cup {[timeoutId |-> timeoutId,
                                     chatId |-> chatId,
                                     abortController |-> abortController]},
                 !.inFlight = MapSet(@, chatId,
                                [abortController |-> abortController,
                                 timeoutId |-> timeoutId,
                                 replyToMessageId |-> replyToMessageId,
                                 sessionId |-> 0])],
           ret |-> abortController]

\* The argument list of a call: prompt-guard.ts:63 calls onTimeout() with
\* no argument at all.
NoArgument == [given |-> FALSE, replyToMessageId |-> 0, sessionId |-> 0]

\* The timer callback without the inFlight.delete(chatId) of line 61.
timerCallbackKeepsEntry(g, t) ==
  LET g1 == [g EXCEPT !.timers = @ \ {t}]
  IN IF \/ t.chatId \notin DOMAIN g.inFlight
        \/ g.inFlight[t.chatId].abortController # t.abortController
     THEN [g |-> g1, onTimeout |-> FALSE, argument |-> NoArgument]
     ELSE [g |-> [g1 EXCEPT !.aborted = @ \cup {t.abortController}],
           onTimeout |-> TRUE, argument |-> NoArgument]

\* The timer callback if line 63 handed onTimeout the entry it has just
\* removed, as the callback of bot.ts:628 expects.
timerCallbackPassesEntry(g, t) ==
  LET g1 == [g EXCEPT !.timers = @ \ {t}]
  IN IF \/ t.chatId \notin DOMAIN g.inFlight
        \/ g.inFlight[t.chatId].abortController # t.abortController
     THEN [g |-> g1, onTimeout |-> FALSE, argument |-> NoArgument]
     ELSE [g |-> [g1 EXCEPT !.inFlight = MapDelete(@, t.chatId),
                            !.aborted = @ \cup {t.abortController}],
           onTimeout |-> TRUE,
           argument |-> [given |-> TRUE,
                         replyToMessageId |->
                           g.inFlight[t.chatId].replyToMessageId,
                         sessionId |-> g.inFlight[t.chatId].sessionId]]

\* prompt-guard.ts:51-64, the callback handed to setTimeout, run for the
\* scheduled timer t.  onTimeout says whether line 63 calls onTimeout().
timerCallback(g, t) ==
  LET g1 == [g EXCEPT !.timers = @ \ {t}]
  IN IF \/ t.chatId \notin DOMAIN g.inFlight
        \/ g.inFlight[t.chatId].abortController # t.abortController
     THEN [g |-> g1, onTimeout |-> FALSE, argument |-> NoArgument]
     ELSE [g |-> [g1 EXCEPT !.inFlight = MapDelete(@, t.chatId),
                            !.aborted = @ \cup {t.abortController}],
           onTimeout |-> TRUE, argument |-> NoArgument]

setSessionIdAnyToken(g, chatId, abortController, sessionId) ==
  IF chatId \notin DOMAIN g.inFlight
  THEN g
  ELSE [g EXCEPT !.inFlight[chatId].sessionId = sessionId]

\* prompt-guard.ts:75-86
setSessionId(g, chatId, abortController, sessionId) ==
  IF \/ chatId \notin DOMAIN g.inFlight
     \/ g.inFlight[chatId].abortController # abortController
  THEN g
  ELSE [g EXCEPT !.inFlight[chatId].sessionId = sessionId]

\* clearTimeout(timeoutId): the callback will not run.
clearTimeout(timerSet, timeoutId) == {t \in timerSet : t.timeoutId # timeoutId}

NullEntry == [abortController |-> 0, replyToMessageId |-> 0, sessionId |-> 0]

\* abort that returns the session id the entry was created with (null)
\* instead of the one recorded on it.
abortForgetsSession(g, chatId) ==
  IF chatId \notin DOMAIN g.inFlight
  THEN [g |-> g, ret |-> NullEntry]
  ELSE LET entry == g.inFlight[chatId]
       IN [g |-> [g EXCEPT !.timers = clearTimeout(@, entry.timeoutId),
                           !.inFlight = MapDelete(@, chatId),
                           !.aborted = @ \cup {entry.abortController}],
           ret |-> [abortController |-> entry.abortController,
                    replyToMessageId |-> entry.replyToMessageId,
                    sessionId |-> 0]]

\* prompt-guard.ts:88-102.  ret = NullEntry is the null returned without entry.
abort(g, chatId) ==
  IF chatId \notin DOMAIN g.inFlight
  THEN [g |-> g, ret |-> NullEntry]
  ELSE LET entry == g.inFlight[chatId]
       IN [g |-> [g EXCEPT !.timers = clearTimeout(@, entry.timeoutId),
                           !.inFlight = MapDelete(@, chatId),
                           !.aborted = @ \cup {entry.abortController}],
           ret |-> [abortController |-> entry.abortController,
                    replyToMessageId |-> entry.replyToMessageId,
                    sessionId |-> entry.sessionId]]

\* finish without the clearTimeout of line 114.
finishKeepsTimer(g, chatId) ==
  IF chatId \notin DOMAIN g.inFlight
  THEN g
  ELSE [g EXCEPT !.inFlight = MapDelete(@, chatId)]

\* prompt-guard.ts:104-116
finish(g, chatId) ==
  IF chatId \notin DOMAIN g.inFlight
  THEN g
  ELSE LET entry == g.inFlight[chatId]
       IN [g EXCEPT !.timers = clearTimeout(@, entry.timeoutId),
                    !.inFlight = MapDelete(@, chatId)]

\* prompt-guard.ts:123
isInFlight(g, chatId) == chatId \in DOMAIN g.inFlight

\* ------------------------------------------------------- history of a call
Call(op, chatId, ctl, ret) ==
  [op |-> op, chatId |-> chatId, abortController |-> ctl, ret |-> ret]

NoCall == Call("none", 0, 0, NullEntry)

\* The entries that the step from guard state g to guard state h removed,
\* tagged with the operation `by' that made the step.
Dropped(g, h, by) ==
  {[chatId |-> c, abortController |-> g.inFlight[c].abortController, by |-> by] :
     c \in {d \in DOMAIN g.inFlight :
              \/ d \notin DOMAIN h.inFlight
              \/ h.inFlight[d].abortController # g.inFlight[d].abortController}}

\* ------------------------------------------------------------ session store
ProjectDir == "/home/user"     \* project.path of the one configured project

\* opencode.ts:309-310
createSessionStore == [sessions |-> << >>, owners |-> << >>]

\* opencode.ts:305-306
buildSessionKey(chatId, projectDir) == <<chatId, projectDir>>

\* opencode.ts:313-314; 0 is undefined
getSessionId(st, chatId, projectDir) ==
  IF buildSessionKey(chatId, projectDir) \in DOMAIN st.sessions
  THEN st.sessions[buildSessionKey(chatId, projectDir)]
  ELSE 0

\* opencode.ts:315-324
storeSetSessionId(st, chatId, projectDir, sessionId) ==
  LET sessionKey == buildSessionKey(chatId, projectDir)
      existing == getSessionId(st, chatId, projectDir)
      owners1 == IF existing # 0 /\ existing # sessionId
                 THEN MapDelete(st.owners, existing)
                 ELSE st.owners
  IN [sessions |-> MapSet(st.sessions, sessionKey, sessionId),
      owners |-> MapSet(owners1, sessionId,
                        [chatId |-> chatId, projectDir |-> projectDir])]

NoOwner == [chatId |-> 0, projectDir |-> ""]

\* opencode.ts:338; NoOwner is null
getSessionOwner(st, sessionId) ==
  IF sessionId \in DOMAIN st.owners THEN st.owners[sessionId] ELSE NoOwner

\* What a store method returned: getSessionId an id (0: undefined),
\* getSessionOwner an owner (NoOwner: null), clearSession a boolean.
Return(op, sessionId, owner, existed) ==
  [op |-> op, sessionId |-> sessionId, owner |-> owner, existed |-> existed]

NoReturn == Return("none", 0, NoOwner, FALSE)

\* opencode.ts:325-332; the store afterwards and the boolean returned
clearSession(st, chatId, projectDir) ==
  LET sessionKey == buildSessionKey(chatId, projectDir)
      existing == getSessionId(st, chatId, projectDir)
      owners1 == IF existing # 0 THEN MapDelete(st.owners, existing)
                 ELSE st.owners
  IN [st |-> [sessions |-> MapDelete(st.sessions, sessionKey),
              owners |-> owners1],
      existed |-> sessionKey \in DOMAIN st.sessions]

\* opencode.ts:334-337
clearAll(st) == [sessions |-> << >>, owners |-> << >>]

\* ------------------------------------------------------ Telegram messages
\* An input of splitTelegramMessage and, once done, the chunks it returned.
Split(text, limit, done, chunks) ==
  [text |-> text, limit |-> limit, done |-> done, chunks |-> chunks]

NoSplit == Split(<< >>, 1, FALSE, << >>)

\* The characters (UTF-16 code units) of the texts that are split.
Alphabet == {"a", "b"}

\* The strings of at most MaxLen characters.
Strings == UNION {[1..n -> Alphabet] : n \in 0..MaxLen}

\* String.prototype.slice(start, end) for 0 <= start <= end (telegram.ts:13):
\* the characters at the positions start .. end-1 that exist.
slice(text, start, end) ==
  SubSeq(text, start + 1, IF end < Len(text) THEN end ELSE Len(text))

\* telegram.ts:12-14, the for loop from offset on.
RECURSIVE pushChunks(_, _, _, _)
pushChunks(text, limit, offset, chunks) ==
  IF offset < Len(text)
  THEN pushChunks(text, limit, offset + limit,
                  Append(chunks, slice(text, offset, offset + limit)))
  ELSE chunks

RECURSIVE pushFullChunks(_, _, _, _)
pushFullChunks(text, limit, offset, chunks) ==
  IF offset + limit <= Len(text)
  THEN pushFullChunks(text, limit, offset + limit,
                      Append(chunks, slice(text, offset, offset + limit)))
  ELSE chunks

splitTelegramMessageDropsRest(text, limit) ==
  IF Len(text) <= limit THEN <<text>>
  ELSE pushFullChunks(text, limit, 0, << >>)

\* telegram.ts:3-17, splitTelegramMessage.
splitTelegramMessage(text, limit) ==
  IF Len(text) <= limit THEN <<text>>
  ELSE pushChunks(text, limit, 0, << >>)

\* Array.prototype.join("") of a list of strings.
RECURSIVE join(_)
join(chunks) ==
  IF chunks = << >> THEN << >> ELSE Head(chunks) \o join(Tail(chunks))

\* ------------------------------------------------------------- prompt tasks
\* The async function runPrompt starts at bot.ts:722 for an accepted message.
\* pc names the await it is suspended at:
\*   "input"  bot.ts:725  await input()           (photo / document download)
\*   "ensure" bot.ts:745  await opencode.ensureSessionId(...)
\*   "prompt" bot.ts:776  await opencode.promptFromChat(...)
\*   "send"   bot.ts:796 / 819-854  await sendReply(...)
\*   "done"   the function has returned (after the finally block)
\* A task is suspended at "ensure" only while client.session.create is in
\* flight (opencode.ts:367): with a stored session ensureSession returns
\* without awaiting a call, and the task runs on to promptFromChat before
\* any other handler or callback can run.  timedOut is the variable of
\* bot.ts:624.
Task(chatId, abortController, pc, timedOut) ==
  [chatId |-> chatId, abortController |-> abortController, pc |-> pc,
   timedOut |-> timedOut]

Message(chatId, replyToMessageId, kind) ==
  [chatId |-> chatId, replyTo |-> replyToMessageId, kind |-> kind]

\* What a step handles: a Telegram update (a text or file message, a
\* command, a pressed button), a question.asked event of the backend, or
\* the outcome ("ok", "failed") of an awaited call.  text is the text of a
\* message that is routed to a question.
Event(op, chatId, requestId, action, optionIndex, text) ==
  [op |-> op, chatId |-> chatId, requestId |-> requestId, action |-> action,
   optionIndex |-> optionIndex, text |-> text]

NoEvent == Event("none", 0, 0, "none", 0, << >>)

\* A finally block that does not release the guard.
finallyKeeps(g, task) == g

\* bot.ts:856-858, the finally block of the task: promptGuard.finish(chatId).
finallyFinish(g, task) == finish(g, task.chatId)

\* An OpenCode API call: promptFromChat for message m, or a call about a
\* session or a question request.
ApiCall(op, id, answers) == [op |-> op, id |-> id, answers |-> answers]

\* What changes when the guard state goes from guard to g in a bot step.
GuardStep(g, by) ==
  /\ guard' = g
  /\ ended' = ended \cup Dropped(guard, g, by)
  /\ UNCHANGED <<elapsed, onTimeoutCalls, lastCall>>

\* The same without the checkpoint of lines 755-763: the task calls
\* promptFromChat whether or not its signal is aborted.
sessionReadyUnchecked(g, task, sessionId) ==
  [g |-> setSessionId(g, task.chatId, task.abortController, sessionId),
   to |-> "prompt"]

\* bot.ts:745-776 once ensureSessionId has returned sessionId: the task
\* records the id on the guard, stops if its signal is aborted (next pc
\* "finally") and otherwise calls promptFromChat (next pc "prompt").
sessionReady(g, task, sessionId) ==
  LET g1 == setSessionId(g, task.chatId, task.abortController, sessionId)
  IN [g |-> g1,
      to |-> IF task.abortController \in g1.aborted THEN "finally"
             ELSE "prompt"]

\* bot.ts:736-746 and opencode.ts:361-365: the task calls ensureSessionId,
\* which looks the session up and returns it, or, if there is none, sends
\* session.create and leaves the task suspended at the await of line 745.
\* The result is the task's next pc and the guard state.
callEnsureSessionId(g, task) ==
  LET existing == getSessionId(store, task.chatId, ProjectDir)
  IN IF existing = 0
     THEN [g |-> g, to |-> "ensure"]
     ELSE sessionReady(g, task, existing)

\* bot.ts:580-720 (runPrompt up to the start of the background task), called
\* by the text handler (bot.ts:1522) with a ready input and by the photo and
\* document handlers (bot.ts:1553, 1625) with a download function.
runPrompt(chatId, kind) ==
  LET replyToMessageId == msgCount + 1
      r == tryStart(guard, chatId, replyToMessageId)
      started == Task(chatId, r.ret, "input", FALSE)
      e == IF kind = "text" THEN callEnsureSessionId(r.g, started)
           ELSE [g |-> r.g, to |-> "input"]
  IN /\ msgCount' = replyToMessageId
     /\ r.ret # 0 => guard.nextCtl <= MaxCtl
     /\ IF r.ret = 0
        THEN /\ GuardStep(r.g, "tryStart")
             /\ sent' = {Message(chatId, replyToMessageId, "blocked")}
             /\ calls' = {}
             /\ UNCHANGED tasks
        ELSE /\ GuardStep(e.g, "tryStart")
             /\ tasks' = MapSet(tasks, replyToMessageId,
                                [started EXCEPT !.pc = e.to])
             /\ sent' = {}
             /\ calls' = IF e.to = "prompt"
                         THEN {ApiCall("promptFromChat", replyToMessageId,
                                       << >>)}
                         ELSE {}
     /\ UNCHANGED <<alive, store, nextSid>>

\* bot.ts:798-855, the catch block: nothing is sent once the signal is
\* aborted or timedOut is set; otherwise one error message is sent and the
\* task waits for sendReply.  The result is the next pc of the task.
catchError(g, task) ==
  IF task.abortController \in g.aborted THEN "finally"
  ELSE IF ~task.timedOut THEN "send"
  ELSE "finally"

\* The task of message m leaves its await with next pc `to'; "finally" runs
\* the finally block at once, "send" hands `kind' to sendReply first and
\* "prompt" calls promptFromChat.
TaskMoves(m, g, to, kind) ==
  LET task == tasks[m]
  IN /\ IF to = "finally"
        THEN /\ GuardStep(finallyFinish(g, task), "finish")
             /\ tasks' = [tasks EXCEPT ![m].pc = "done"]
        ELSE /\ GuardStep(g, "task")
             /\ tasks' = [tasks EXCEPT ![m].pc = to]
     /\ sent' = IF to = "send" THEN {Message(task.chatId, m, kind)} ELSE {}
     /\ calls' = IF to = "prompt" THEN {ApiCall("promptFromChat", m, << >>)}
                 ELSE {}

\* bot.ts:724-743: input() settles.  A failed download goes to the catch
\* block; otherwise the task stops if its signal is aborted and calls
\* ensureSessionId if not.
InputSettles(m, ok) ==
  LET task == tasks[m]
      e == callEnsureSessionId(guard, task)
  IN /\ alive
     /\ m \in DOMAIN tasks /\ task.pc = "input"
     /\ IF ~ok
        THEN TaskMoves(m, guard, catchError(guard, task), "error")
        ELSE IF task.abortController \in guard.aborted
        THEN TaskMoves(m, guard, "finally", "none")
        ELSE TaskMoves(m, e.g, e.to, "none")
     /\ UNCHANGED <<alive, msgCount, store, nextSid>>
     /\ UNCHANGED qregs /\ lastEvent' = NoEvent

\* opencode.ts:367-374 and bot.ts:745-781: session.create settles, and with
\* it ensureSessionId.  It has succeeded (the new id is stored and
\* returned) or failed (the await throws).
EnsureSettles(m, ok) ==
  LET task == tasks[m]
      s == sessionReady(guard, task, nextSid)
  IN /\ alive
     /\ m \in DOMAIN tasks /\ task.pc = "ensure"
     /\ ok => nextSid <= MaxSessions
     /\ IF ~ok
        THEN /\ TaskMoves(m, guard, catchError(guard, task), "error")
             /\ UNCHANGED <<store, nextSid>>
        ELSE /\ store' = storeSetSessionId(store, task.chatId, ProjectDir,
                                           nextSid)
             /\ nextSid' = nextSid + 1
             /\ TaskMoves(m, s.g, s.to, "none")
     /\ UNCHANGED <<alive, msgCount>>
     /\ UNCHANGED qregs /\ lastEvent' = NoEvent

\* bot.ts:776-855: promptFromChat settles, with a result or with an error.
PromptSettles(m, ok) ==
  LET task == tasks[m]
  IN /\ alive
     /\ m \in DOMAIN tasks /\ task.pc = "prompt"
     /\ IF ok
        THEN TaskMoves(m, guard, IF ~task.timedOut THEN "send" ELSE "finally",
                       "reply")
        ELSE TaskMoves(m, guard, catchError(guard, task), "error")
     /\ UNCHANGED <<alive, msgCount, store, nextSid>>
     /\ UNCHANGED qregs /\ lastEvent' = NoEvent

\* bot.ts:796 / 819-854 and 140-157: sendReply settles (it swallows its own
\* errors), and the finally block runs.
SendSettles(m) ==
  /\ alive
  /\ m \in DOMAIN tasks /\ tasks[m].pc = "send"
  /\ TaskMoves(m, guard, "finally", "none")
  /\ UNCHANGED <<alive, msgCount, store, nextSid>>
  /\ UNCHANGED qregs /\ lastEvent' = NoEvent

\* bot.ts:628-703, the callback runPrompt hands to tryStart.  Its parameter
\* list ({ replyToMessageId: timeoutReplyToMessageId, sessionId }) destructures
\* the first argument, so a call without an argument throws a TypeError while
\* the parameters are bound: line 629 (timedOut = true) and the handler
\* behind it do not run.  Called with an argument it sets timedOut and, in
\* a chat without an open question (clearPendingQuestion then returns
\* without waiting for a call), at once either sends the "session not
\* ready" reply (no session id) or calls abortSession, whose outcome decides
\* the reply sent later.
onTimeout(task, argument) ==
  IF ~argument.given
  THEN [threw |-> TRUE, task |-> task, sent |-> {}, calls |-> {}]
  ELSE [threw |-> FALSE, task |-> [task EXCEPT !.timedOut = TRUE],
        sent |-> IF argument.sessionId = 0
                 THEN {Message(task.chatId, argument.replyToMessageId,
                               "timeout: session not ready")}
                 ELSE {},
        calls |-> IF argument.sessionId = 0 THEN {}
                  ELSE {ApiCall("abortSession", argument.sessionId, << >>)}]

\* The guard timer of a prompt fires (prompt-guard.ts:51-64).  An exception
\* that onTimeout throws leaves the timer callback uncaught: neither
\* index.ts nor cli.ts installs an uncaughtException handler, so Node ends
\* the process, while a host that catches it (a handler of the embedding
\* program, a fake-timer harness) lets the bridge run on.
PromptTimer(t, hostExits) ==
  LET r == timerCallback(guard, t)
      m == CHOOSE x \in DOMAIN tasks :
             tasks[x].abortController = t.abortController
      cb == onTimeout(tasks[m], r.argument)
  IN /\ alive
     /\ t \in guard.timers /\ t.timeoutId <= elapsed
     /\ guard' = r.g
     /\ ended' = ended \cup Dropped(guard, r.g, "timeout")
     /\ UNCHANGED <<elapsed, lastCall>>
     /\ IF r.onTimeout
        THEN /\ onTimeoutCalls' =
                  [onTimeoutCalls EXCEPT ![t.abortController] = @ + 1]
             /\ tasks' = [tasks EXCEPT ![m] = cb.task]
             /\ alive' = IF cb.threw THEN ~hostExits ELSE alive
        ELSE /\ ~hostExits
             /\ UNCHANGED <<onTimeoutCalls, tasks, alive>>
     /\ sent' = (IF r.onTimeout THEN cb.sent ELSE {})
     /\ calls' = (IF r.onTimeout THEN cb.calls ELSE {})
     /\ UNCHANGED <<msgCount, store, nextSid>>
     /\ UNCHANGED qregs /\ lastEvent' = NoEvent

abortPromptUnaddressed(chatId) ==
  LET aborted == abort(guard, chatId)
  IN /\ GuardStep(aborted.g, "abort")
     /\ IF aborted.ret = NullEntry
        THEN /\ sent' = {Message(chatId, 0, "noInFlight")}
             /\ calls' = {}
        ELSE /\ sent' = {Message(chatId, 0, "aborting")}
             /\ calls' = IF aborted.ret.sessionId # 0
                         THEN {ApiCall("abortSession", aborted.ret.sessionId, << >>)}
                         ELSE {}

\* bot.ts:1230-1245, the /abort command once no question is open (any more):
\* promptGuard.abort, then the acknowledgment addressed to the aborted
\* message, then abortSession when a session id was recorded.
abortPrompt(chatId) ==
  LET aborted == abort(guard, chatId)
  IN /\ GuardStep(aborted.g, "abort")
     /\ IF aborted.ret = NullEntry
        THEN /\ sent' = {Message(chatId, 0, "noInFlight")}
             /\ calls' = {}
        ELSE /\ sent' = {Message(chatId, aborted.ret.replyToMessageId,
                                 "aborting")}
             /\ calls' = IF aborted.ret.sessionId # 0
                         THEN {ApiCall("abortSession", aborted.ret.sessionId, << >>)}
                         ELSE {}

\* ------------------------------------------------------- pending questions
\* Strings the code takes apart (labels, typed text) are sequences of
\* characters.
LabelA == <<"A">>
LabelB == <<"B">>

\* A sub-question of a question request: question.multiple,
\* question.custom # false, and the labels of question.options.
Question(multiple, custom, options) ==
  [multiple |-> multiple, custom |-> custom, options |-> options]

SingleSelect == Question(FALSE, TRUE, <<LabelA, LabelB>>)
MultiSelect == Question(TRUE, TRUE, <<LabelA, LabelB>>)
MultiSelectOnly == Question(TRUE, FALSE, <<LabelA, LabelB>>)

\* request.questions of the requests the backend sends.
QuestionLists ==
  {<<MultiSelect>>, <<SingleSelect, MultiSelectOnly>>,
   <<MultiSelect, SingleSelect>>}

\* Texts a user types.
Texts == {<<" ">>, <<"x">>, <<" ", "A">>}

\* callback data q:<requestId>:opt:<index>, q:<requestId>:next and
\* q:<requestId>:cancel (bot.ts:256-271); any index can be sent.
OptionIndexes == {0, 1, 2}

\* String.prototype.trim for the white space that occurs in Texts.
RECURSIVE trimStart(_)
trimStart(text) ==
  IF text # << >> /\ Head(text) = " " THEN trimStart(Tail(text)) ELSE text

RECURSIVE trimEnd(_)
trimEnd(text) ==
  IF text # << >> /\ text[Len(text)] = " "
  THEN trimEnd(SubSeq(text, 1, Len(text) - 1))
  ELSE text

trim(text) == trimEnd(trimStart(text))

\* Array.prototype.includes
includes(list, value) == \E i \in 1..Len(list) : list[i] = value

\* The type PendingQuestion (bot.ts:520-543; directory is the one project
\* directory).  currentIndex counts from 0 as in the code.  An answer that
\* is null and an answer that is the empty list are one value, << >>: every
\* reader treats them alike (bot.ts:198, 338, 1443-1445, 1478-1479).
PendingQuestion(chatId, messageId, requestId, questions, currentIndex, answers) ==
  [chatId |-> chatId, messageId |-> messageId, requestId |-> requestId,
   questions |-> questions, currentIndex |-> currentIndex, answers |-> answers]

\* null where a PendingQuestion is expected
NoPending == PendingQuestion(0, 0, 0, << >>, 0, << >>)

\* The type PendingPermission (bot.ts:56-61; directory is the one project
\* directory and summary follows from the request).  requestId is the key
\* the entry is stored under.
PendingPermission(chatId, messageId, requestId) ==
  [chatId |-> chatId, messageId |-> messageId, requestId |-> requestId]

NoPermission == PendingPermission(0, 0, 0)

\* bot.ts:159-166
getPendingQuestionForChat(chatId) ==
  IF chatId \notin DOMAIN pendingQuestionsByChat THEN NoPending
  ELSE IF pendingQuestionsByChat[chatId] \notin DOMAIN pendingQuestions
  THEN NoPending
  ELSE pendingQuestions[pendingQuestionsByChat[chatId]]

\* bot.ts:325-331; the result is the pair of maps afterwards.
deletePendingQuestion(requestId, chatId) ==
  [pendingQuestions |-> MapDelete(pendingQuestions, requestId),
   pendingQuestionsByChat |->
     IF chatId \in DOMAIN pendingQuestionsByChat
        /\ pendingQuestionsByChat[chatId] = requestId
     THEN MapDelete(pendingQuestionsByChat, chatId)
     ELSE pendingQuestionsByChat]

\* bot.ts:333-342; ok is FALSE for the result null.
collectQuestionAnswers(pending) ==
  IF \E i \in 1..Len(pending.answers) : Len(pending.answers[i]) = 0
  THEN [ok |-> FALSE, answers |-> << >>]
  ELSE [ok |-> TRUE, answers |-> pending.answers]

\* advanceQuestionOrSubmit without the increment of line 347.
advanceQuestionOrSubmitStays(pending) ==
  LET isLast == pending.currentIndex >= Len(pending.questions) - 1
      collected == collectQuestionAnswers(pending)
  IN IF ~isLast
     THEN [pending |-> pending,
           await |-> "updateQuestionMessage", answers |-> << >>]
     ELSE IF ~collected.ok
     THEN [pending |-> pending, await |-> "throw", answers |-> << >>]
     ELSE [pending |-> pending, await |-> "replyToQuestion",
           answers |-> collected.answers]

\* advanceQuestionOrSubmit if it took the sub-question before the last one
\* for the last.
advanceQuestionOrSubmitEarly(pending) ==
  LET isLast == pending.currentIndex >= Len(pending.questions) - 2
      collected == collectQuestionAnswers(pending)
  IN IF ~isLast
     THEN [pending |-> [pending EXCEPT !.currentIndex = @ + 1],
           await |-> "updateQuestionMessage", answers |-> << >>]
     ELSE IF ~collected.ok
     THEN [pending |-> pending, await |-> "throw", answers |-> << >>]
     ELSE [pending |-> pending, await |-> "replyToQuestion",
           answers |-> collected.answers]

\* bot.ts:344-357, advanceQuestionOrSubmit up to its first await: the entry
\* afterwards and what the function is waiting for.
advanceQuestionOrSubmit(pending) ==
  LET isLast == pending.currentIndex >= Len(pending.questions) - 1
      collected == collectQuestionAnswers(pending)
  IN IF ~isLast
     THEN [pending |-> [pending EXCEPT !.currentIndex = @ + 1],
           await |-> "updateQuestionMessage", answers |-> << >>]
     ELSE IF ~collected.ok
     THEN [pending |-> pending, await |-> "throw", answers |-> << >>]
     ELSE [pending |-> pending, await |-> "replyToQuestion",
           answers |-> collected.answers]

\* The toggle without the removal of line 1447: a pressed label is added
\* whether or not it is selected.
toggleOptionAdds(question, current, selectedLabel) ==
  LET optionLabels == {question.options[i] : i \in 1..Len(question.options)}
      base == SelectSeq(current, LAMBDA value : value \in optionLabels)
  IN Append(base, selectedLabel)

\* bot.ts:1441-1450: the answer list of a multi-select sub-question after
\* the option with the given label was pressed.
toggleOption(question, current, selectedLabel) ==
  LET optionLabels == {question.options[i] : i \in 1..Len(question.options)}
      base == SelectSeq(current, LAMBDA value : value \in optionLabels)
  IN IF includes(base, selectedLabel)
     THEN SelectSeq(base, LAMBDA value : value # selectedLabel)
     ELSE Append(base, selectedLabel)

\* A handler suspended at an await after which it touches the registry or
\* the guard: kind "submit" waits for replyToQuestion (bot.ts:357), "cancel"
\* for rejectQuestion (bot.ts:1395), "abort" for clearPendingQuestion
\* (bot.ts:1225).  via and replyTo say how it reports: to the callback query
\* or by a reply to the text message.
Handler(kind, chatId, requestId, via, replyTo) ==
  [kind |-> kind, chatId |-> chatId, requestId |-> requestId, via |-> via,
   replyTo |-> replyTo]

\* What a handler tells the user when replyToQuestion has returned
\* (bot.ts:1463, 1490; nothing after a typed answer) or thrown (bot.ts:409,
\* 1466, 1493).
answerReport(chatId, via, replyTo, ok) ==
  IF via = "text"
  THEN IF ok THEN {}
       ELSE {Message(chatId, replyTo, "Failed to send answer to OpenCode.")}
  ELSE {Message(chatId, replyTo,
                IF ~ok THEN "Failed to send answer."
                ELSE IF via = "option" THEN "Selected." ELSE "Sent.")}

\* The entry `pending' has just got its answer for the current sub-question
\* and the handler calls advanceQuestionOrSubmit (bot.ts:344-370) in a
\* try/catch: either the index advances and the edit of the question
\* message is sent, or replyToQuestion is called and the handler waits for
\* it.  What the handler reports after the edit (bot.ts:409, 1463-1466,
\* 1490-1493) depends on Telegram's answer alone and changes no state.
answered(pending, via, replyTo) ==
  LET a == advanceQuestionOrSubmit(pending)
  IN /\ pendingQuestions' =
          [pendingQuestions EXCEPT ![pending.requestId] = a.pending]
     /\ UNCHANGED pendingQuestionsByChat
     /\ IF a.await = "replyToQuestion"
        THEN /\ calls' = {ApiCall("replyToQuestion", pending.requestId, a.answers)}
             /\ sent' = {}
             /\ handlers' = handlers (+)
                  SetToBag({Handler("submit", pending.chatId,
                                    pending.requestId, via, replyTo)})
        ELSE /\ calls' = {}
             /\ sent' = IF a.await = "updateQuestionMessage"
                        THEN {Message(pending.chatId, pending.messageId,
                                      "question")}
                        ELSE answerReport(pending.chatId, via, replyTo, FALSE)
             /\ UNCHANGED handlers

\* handleQuestionTextAnswer without the test of question.custom (lines
\* 389-396): a typed answer is taken for every sub-question.
handleQuestionTextAnswerAnyCustom(pending, chatId, replyToMessageId, text) ==
  LET trimmed == trim(text)
  IN IF pending.currentIndex >= Len(pending.questions)
     THEN /\ sent' = {Message(chatId, replyToMessageId, "Question not available.")}
          /\ calls' = {}
          /\ pendingQuestions' =
               deletePendingQuestion(pending.requestId, pending.chatId).pendingQuestions
          /\ pendingQuestionsByChat' =
               deletePendingQuestion(pending.requestId, pending.chatId).pendingQuestionsByChat
          /\ UNCHANGED handlers
     ELSE IF trimmed = << >>
     THEN /\ sent' = {Message(chatId, replyToMessageId, "Answer cannot be empty.")}
          /\ calls' = {}
          /\ UNCHANGED <<pendingQuestions, pendingQuestionsByChat, handlers>>
     ELSE answered([pending EXCEPT !.answers[pending.currentIndex + 1] = <<trimmed>>],
                   "text", replyToMessageId)

\* bot.ts:372-413, handleQuestionTextAnswer for a chat with an open question.
handleQuestionTextAnswer(pending, chatId, replyToMessageId, text) ==
  LET question == pending.questions[pending.currentIndex + 1]
      trimmed == trim(text)
      notice(kind) ==
        /\ sent' = {Message(chatId, replyToMessageId, kind)}
        /\ calls' = {}
        /\ UNCHANGED <<pendingQuestions, pendingQuestionsByChat, handlers>>
  IN IF pending.currentIndex >= Len(pending.questions)
     THEN /\ sent' = {Message(chatId, replyToMessageId, "Question not available.")}
          /\ calls' = {}
          /\ pendingQuestions' =
               deletePendingQuestion(pending.requestId, pending.chatId).pendingQuestions
          /\ pendingQuestionsByChat' =
               deletePendingQuestion(pending.requestId, pending.chatId).pendingQuestionsByChat
          /\ UNCHANGED handlers
     ELSE IF ~question.custom
     THEN notice("Please choose one of the options for this question.")
     ELSE IF trimmed = << >>
     THEN notice("Answer cannot be empty.")
     ELSE answered([pending EXCEPT !.answers[pending.currentIndex + 1] = <<trimmed>>],
                   "text", replyToMessageId)

\* The text handler without the question check of lines 1515-1520.
onTextStartsPrompt(chatId, text) ==
  /\ alive
  /\ lastEvent' = Event("text", chatId, 0, "none", 0, text)
  /\ UNCHANGED <<evHandler, nextReq>>
  /\ runPrompt(chatId, "text")
  /\ UNCHANGED <<pendingQuestions, pendingQuestionsByChat, handlers>>

\* bot.ts:1498-1523, the text handler for a message of an authorized user
\* that is no command: a typed answer if the chat has an open question, a
\* prompt otherwise.
onText(chatId, text) ==
  LET pending == getPendingQuestionForChat(chatId)
      handled == pending # NoPending
  IN /\ alive
     /\ lastEvent' = Event("text", chatId, 0, "none", 0,
                           IF handled THEN text ELSE << >>)
     /\ UNCHANGED <<evHandler, nextReq>>
     /\ IF handled
        THEN /\ msgCount' = msgCount + 1
             /\ handleQuestionTextAnswer(pending, chatId, msgCount + 1, text)
             /\ UNCHANGED <<gvars, alive, tasks, store, nextSid>>
        ELSE /\ runPrompt(chatId, "text")
             /\ UNCHANGED <<pendingQuestions, pendingQuestionsByChat, handlers>>

\* bot.ts:1525-1581 and 1583-1651, the photo and document handlers: a notice
\* if the chat has an open question, a prompt whose input is a download
\* otherwise.
onFile(chatId) ==
  /\ alive
  /\ lastEvent' = Event("file", chatId, 0, "none", 0, << >>)
  /\ UNCHANGED <<pendingQuestions, pendingQuestionsByChat, handlers,
                 evHandler, nextReq>>
  /\ IF getPendingQuestionForChat(chatId) # NoPending
     THEN /\ msgCount' = msgCount + 1
          /\ sent' = {Message(chatId, msgCount + 1,
                        "OpenCode is waiting for you to answer a question.")}
          /\ calls' = {}
          /\ UNCHANGED <<gvars, alive, tasks, store, nextSid>>
     ELSE runPrompt(chatId, "file")

\* onQuestionAsked without the check for an open question (lines 523-536).
onQuestionAskedAgain(sessionId, questions) ==
  LET owner == getSessionOwner(store, sessionId)
      pending == PendingQuestion(owner.chatId, 0, nextReq, questions, 0,
                                 [i \in 1..Len(questions) |-> << >>])
  IN /\ alive
     /\ evHandler = NoPending /\ evPermission = NoPermission
     /\ nextReq' = nextReq + 1
     /\ IF owner = NoOwner
        THEN /\ sent' = {} /\ calls' = {}
             /\ UNCHANGED evHandler
        ELSE /\ sent' = {Message(owner.chatId, 0, "question")}
             /\ calls' = {}
             /\ evHandler' = pending
     /\ UNCHANGED <<pendingQuestions, pendingQuestionsByChat, handlers>>
     /\ lastEvent' = Event("question.asked", owner.chatId, nextReq, "none", 0,
                           << >>)
     /\ UNCHANGED <<gvars, alive, msgCount, tasks, store, nextSid>>

\* bot.ts:513-545, onQuestionAsked for the request the backend numbers
\* nextReq, up to its await: no owner, nothing happens; an open question in
\* the owner's chat, the new request is rejected; otherwise the question
\* message is sent and the event loop (opencode.ts:620-651, which awaits
\* each handler) waits for Telegram.
onQuestionAsked(sessionId, questions) ==
  LET owner == getSessionOwner(store, sessionId)
      existing == getPendingQuestionForChat(owner.chatId)
      pending == PendingQuestion(owner.chatId, 0, nextReq, questions, 0,
                                 [i \in 1..Len(questions) |-> << >>])
  IN /\ alive
     /\ evHandler = NoPending /\ evPermission = NoPermission
     /\ nextReq' = nextReq + 1
     /\ IF owner = NoOwner
        THEN /\ sent' = {} /\ calls' = {}
             /\ UNCHANGED evHandler
        ELSE IF existing # NoPending
        THEN /\ sent' = {}
             /\ calls' = {ApiCall("rejectQuestion", nextReq, << >>)}
             /\ UNCHANGED evHandler
        ELSE /\ sent' = {Message(owner.chatId, 0, "question")}
             /\ calls' = {}
             /\ evHandler' = pending
     /\ UNCHANGED <<pendingQuestions, pendingQuestionsByChat, handlers>>
     /\ lastEvent' = Event("question.asked", owner.chatId, nextReq, "none", 0,
                           << >>)
     /\ UNCHANGED <<gvars, alive, msgCount, tasks, store, nextSid>>

\* bot.ts:546-557: sendMessage settles.  On success the entry gets the id
\* of the message (numbered like the request) and is put into both maps.
QuestionSent(ok) ==
  LET pending == [evHandler EXCEPT !.messageId = evHandler.requestId]
  IN /\ alive
     /\ evHandler # NoPending
     /\ evHandler' = NoPending
     /\ IF ok
        THEN /\ pendingQuestions' = MapSet(pendingQuestions, pending.requestId, pending)
             /\ pendingQuestionsByChat' =
                  MapSet(pendingQuestionsByChat, pending.chatId, pending.requestId)
        ELSE UNCHANGED <<pendingQuestions, pendingQuestionsByChat>>
     /\ sent' = {} /\ calls' = {}
     /\ UNCHANGED <<handlers, nextReq>>
     /\ lastEvent' = Event("sendMessage", pending.chatId, pending.requestId,
                           IF ok THEN "ok" ELSE "failed", 0, << >>)
     /\ UNCHANGED <<gvars, alive, msgCount, tasks, store, nextSid>>

\* bot.ts:1326-1496, the callback_query handler for the callback data of a
\* question button pressed by an authorized user in chat chatId.  After the
\* edit of a toggled question the handler reports "Updated." or "Failed to
\* update." as Telegram answers (bot.ts:1452-1458).
onCallbackQuery(chatId, requestId, action, optionIndex) ==
  LET pending == IF requestId \in DOMAIN pendingQuestions
                 THEN pendingQuestions[requestId]
                 ELSE NoPending
      question == pending.questions[pending.currentIndex + 1]
      current == pending.answers[pending.currentIndex + 1]
      selectedLabel == question.options[optionIndex + 1]
      answerCbQuery(text) == {Message(chatId, msgCount + 1, text)}
      toast(text) ==
        /\ sent' = answerCbQuery(text)
        /\ calls' = {}
        /\ UNCHANGED <<pendingQuestions, pendingQuestionsByChat, handlers>>
  IN /\ alive
     /\ msgCount' = msgCount + 1
     /\ lastEvent' = Event("callback_query", chatId, requestId, action,
                           optionIndex, << >>)
     /\ UNCHANGED <<evHandler, nextReq>>
     /\ UNCHANGED <<gvars, alive, tasks, store, nextSid>>
     /\ IF pending = NoPending
        THEN toast("Question request not found.")
        ELSE IF chatId # pending.chatId
        THEN toast("Not authorized.")
        ELSE IF action = "cancel"
        THEN /\ calls' = {ApiCall("rejectQuestion", requestId, << >>)}
             /\ sent' = {}
             /\ handlers' = handlers (+)
                  SetToBag({Handler("cancel", chatId, requestId, "cancel",
                                    msgCount + 1)})
             /\ UNCHANGED <<pendingQuestions, pendingQuestionsByChat>>
        ELSE IF pending.currentIndex >= Len(pending.questions)
        THEN toast("Question not available.")
        ELSE IF action = "option"
        THEN IF optionIndex >= Len(question.options)
             THEN toast("Invalid option.")
             ELSE IF question.multiple
             THEN /\ pendingQuestions' =
                       [pendingQuestions EXCEPT
                          ![requestId].answers[pending.currentIndex + 1] =
                             toggleOption(question, current, selectedLabel)]
                  /\ sent' = {Message(chatId, pending.messageId, "question")}
                  /\ calls' = {}
                  /\ UNCHANGED <<pendingQuestionsByChat, handlers>>
             ELSE answered([pending EXCEPT
                              !.answers[pending.currentIndex + 1] =
                                 <<selectedLabel>>],
                           "option", msgCount + 1)
        ELSE IF ~question.multiple
        THEN toast("Select an option.")
        ELSE IF Len(current) = 0
        THEN toast(IF ~question.custom
                   THEN "Select at least one option."
                   ELSE "Select at least one option or type an answer.")
        ELSE answered(pending, "next", msgCount + 1)

\* bot.ts:357-369 and the handler's report: replyToQuestion settles.  When
\* it has succeeded the entry is deleted and the question message gets its
\* final status; when it has thrown the entry stays as it is.
SubmitSettles(h, ok) ==
  /\ alive
  /\ BagIn(h, handlers) /\ h.kind = "submit"
  /\ handlers' = handlers (-) SetToBag({h})
  /\ IF ok
     THEN /\ pendingQuestions' =
               deletePendingQuestion(h.requestId, h.chatId).pendingQuestions
          /\ pendingQuestionsByChat' =
               deletePendingQuestion(h.requestId, h.chatId).pendingQuestionsByChat
          /\ sent' = {Message(h.chatId, h.requestId, "Status: Answer sent to OpenCode.")}
                     \cup answerReport(h.chatId, h.via, h.replyTo, TRUE)
     ELSE /\ UNCHANGED <<pendingQuestions, pendingQuestionsByChat>>
          /\ sent' = answerReport(h.chatId, h.via, h.replyTo, FALSE)
  /\ calls' = {}
  /\ UNCHANGED <<evHandler, nextReq>>
  /\ lastEvent' = Event("replyToQuestion", h.chatId, h.requestId,
                        IF ok THEN "ok" ELSE "failed", 0, << >>)
  /\ UNCHANGED <<gvars, alive, msgCount, tasks, store, nextSid>>

\* The Cancel handler if it kept the entry of a question whose rejectQuestion
\* call failed.
CancelSettlesKeepsRejected(h, ok) ==
  /\ alive
  /\ BagIn(h, handlers) /\ h.kind = "cancel"
  /\ handlers' = handlers (-) SetToBag({h})
  /\ IF ok
     THEN /\ pendingQuestions' =
               deletePendingQuestion(h.requestId, h.chatId).pendingQuestions
          /\ pendingQuestionsByChat' =
               deletePendingQuestion(h.requestId, h.chatId).pendingQuestionsByChat
     ELSE UNCHANGED <<pendingQuestions, pendingQuestionsByChat>>
  /\ sent' = {Message(h.chatId, h.requestId, "Status: Cancelled"),
              Message(h.chatId, h.replyTo, "Cancelled.")}
  /\ calls' = {}
  /\ UNCHANGED <<evHandler, nextReq>>
  /\ lastEvent' = Event("rejectQuestion", h.chatId, h.requestId,
                        IF ok THEN "ok" ELSE "failed", 0, << >>)
  /\ UNCHANGED <<gvars, alive, msgCount, tasks, store, nextSid>>

\* bot.ts:1393-1414: rejectQuestion of the Cancel button settles, ok or with
\* an error that is only logged; the entry is deleted, the question message
\* is edited to "Status: Cancelled" and the callback query is answered.
CancelSettles(h, ok) ==
  /\ alive
  /\ BagIn(h, handlers) /\ h.kind = "cancel"
  /\ handlers' = handlers (-) SetToBag({h})
  /\ pendingQuestions' =
       deletePendingQuestion(h.requestId, h.chatId).pendingQuestions
  /\ pendingQuestionsByChat' =
       deletePendingQuestion(h.requestId, h.chatId).pendingQuestionsByChat
  /\ sent' = {Message(h.chatId, h.requestId, "Status: Cancelled"),
              Message(h.chatId, h.replyTo, "Cancelled.")}
  /\ calls' = {}
  /\ UNCHANGED <<evHandler, nextReq>>
  /\ lastEvent' = Event("rejectQuestion", h.chatId, h.requestId,
                        IF ok THEN "ok" ELSE "failed", 0, << >>)
  /\ UNCHANGED <<gvars, alive, msgCount, tasks, store, nextSid>>

\* bot.ts:1204-1246, the /abort command of an authorized user in a chat with
\* a configured project.  clearPendingQuestion (bot.ts:291-323) takes an open
\* question out of both maps at once and then waits for rejectQuestion and
\* for the status edit, so with an open question the guard is aborted in a
\* later step; without one nothing is waited for.
onAbort(chatId) ==
  LET pending == getPendingQuestionForChat(chatId)
  IN /\ alive
     /\ msgCount' = msgCount + 1
     /\ lastEvent' = Event("abort", chatId, 0, "none", 0, << >>)
     /\ UNCHANGED <<evHandler, nextReq>>
     /\ UNCHANGED <<alive, tasks, store, nextSid>>
     /\ IF pending = NoPending
        THEN /\ abortPrompt(chatId)
             /\ UNCHANGED <<pendingQuestions, pendingQuestionsByChat, handlers>>
        ELSE /\ pendingQuestions' = MapDelete(pendingQuestions, pending.requestId)
             /\ pendingQuestionsByChat' = MapDelete(pendingQuestionsByChat, chatId)
             /\ calls' = {ApiCall("rejectQuestion", pending.requestId, << >>)}
             /\ sent' = {}
             /\ handlers' = handlers (+)
                  SetToBag({Handler("abort", chatId, pending.requestId, "abort",
                                    msgCount + 1)})
             /\ UNCHANGED gvars

\* bot.ts:302-320 and 1227-1245: rejectQuestion and the status edit of
\* clearPendingQuestion have settled (their errors are only logged), and the
\* /abort handler goes on to abort the prompt.
AbortContinues(h) ==
  /\ alive
  /\ BagIn(h, handlers) /\ h.kind = "abort"
  /\ handlers' = handlers (-) SetToBag({h})
  /\ abortPrompt(h.chatId)
  /\ UNCHANGED <<pendingQuestions, pendingQuestionsByChat, evHandler, nextReq>>
  /\ lastEvent' = Event("clearPendingQuestion", h.chatId, h.requestId, "ok", 0,
                        << >>)
  /\ UNCHANGED <<alive, msgCount, tasks, store, nextSid>>

\* ---------------------------------------------------- pending permissions
\* opencode.ts:83, the type PermissionReply.
PermissionReplies == {"once", "always", "reject"}

\* opencode.ts:40-45, a replyToPermission call with its reply.
replyToPermission(requestId, reply) ==
  ApiCall("replyToPermission", requestId, << << <<reply>> >> >>)

\* A permission.asked event of the backend: the session and the request
\* it names, and the chat of the session's owner (0: no owner).
PermissionAsked(sessionId, requestId, chatId) ==
  [op |-> "permission.asked", chatId |-> chatId, requestId |-> requestId,
   action |-> "none", optionIndex |-> 0, text |-> << >>,
   sessionId |-> sessionId]

onPermissionAskedAnyOwner(sessionId) ==
  LET found == getSessionOwner(store, sessionId)
      owner == IF found = NoOwner
               THEN [NoOwner EXCEPT !.chatId = CHOOSE c \in Chats : TRUE]
               ELSE found
  IN /\ alive
     /\ evHandler = NoPending /\ evPermission = NoPermission
     /\ nextReq' = nextReq + 1
     /\ sent' = {Message(owner.chatId, 0, "permission")}
     /\ evPermission' = PendingPermission(owner.chatId, 0, nextReq)
     /\ calls' = {}
     /\ UNCHANGED pendingPermissions
     /\ lastEvent' = PermissionAsked(sessionId, nextReq, found.chatId)
     /\ UNCHANGED <<gvars, alive, msgCount, tasks, store, nextSid>>
     /\ UNCHANGED <<pendingQuestions, pendingQuestionsByChat, handlers, evHandler>>

\* bot.ts:485-501, onPermissionAsked for the request the backend numbers
\* nextReq, up to its await: without an owner nothing happens; otherwise the
\* permission message is sent to the owner's chat and the event loop
\* (opencode.ts:620-651, which awaits each handler) waits for Telegram.
onPermissionAsked(sessionId) ==
  LET owner == getSessionOwner(store, sessionId)
  IN /\ alive
     /\ evHandler = NoPending /\ evPermission = NoPermission
     /\ nextReq' = nextReq + 1
     /\ IF owner = NoOwner
        THEN /\ sent' = {}
             /\ UNCHANGED evPermission
        ELSE /\ sent' = {Message(owner.chatId, 0, "permission")}
             /\ evPermission' = PendingPermission(owner.chatId, 0, nextReq)
     /\ calls' = {}
     /\ UNCHANGED pendingPermissions
     /\ lastEvent' = PermissionAsked(sessionId, nextReq, owner.chatId)
     /\ UNCHANGED <<gvars, alive, msgCount, tasks, store, nextSid>>
     /\ UNCHANGED <<pendingQuestions, pendingQuestionsByChat, handlers, evHandler>>

\* bot.ts:500-511: sendMessage settles.  On success the entry gets the id
\* of the message (numbered like the request) and is stored under the
\* request id; a failed send is only logged.
PermissionSent(ok) ==
  LET pending == [evPermission EXCEPT !.messageId = evPermission.requestId]
  IN /\ alive
     /\ evPermission # NoPermission
     /\ evPermission' = NoPermission
     /\ pendingPermissions' = IF ok
                              THEN MapSet(pendingPermissions, pending.requestId,
                                          pending)
                              ELSE pendingPermissions
     /\ sent' = {} /\ calls' = {}
     /\ lastEvent' = Event("sendMessage", pending.chatId, pending.requestId,
                           IF ok THEN "ok" ELSE "failed", 0, << >>)
     /\ UNCHANGED <<gvars, alive, msgCount, tasks, store, nextSid>>
     /\ UNCHANGED qregs

\* A callback_query handler suspended at replyToPermission (bot.ts:1356)
\* with the entry it read at bot.ts:1349.
PermissionHandler(chatId, requestId, reply, replyTo, pending) ==
  [kind |-> "permission", chatId |-> chatId, requestId |-> requestId,
   via |-> reply, replyTo |-> replyTo, pending |-> pending]

\* The permission handler without the lookup of lines 1349-1353: every
\* press is forwarded.
onPermissionCallbackUnchecked(chatId, requestId, reply) ==
  /\ alive
  /\ msgCount' = msgCount + 1
  /\ lastEvent' = Event("callback_query", chatId, requestId, reply, 0, << >>)
  /\ sent' = {}
  /\ calls' = {replyToPermission(requestId, reply)}
  /\ handlers' = handlers (+)
       SetToBag({PermissionHandler(chatId, requestId, reply, msgCount + 1,
                                   IF requestId \in DOMAIN pendingPermissions
                                   THEN pendingPermissions[requestId]
                                   ELSE NoPermission)})
  /\ UNCHANGED mvars
  /\ UNCHANGED <<gvars, alive, tasks, store, nextSid>>
  /\ UNCHANGED <<pendingQuestions, pendingQuestionsByChat, evHandler, nextReq>>

\* bot.ts:1345-1360, the callback_query handler for the callback data of a
\* permission button pressed by an authorized user in chat chatId: an
\* unknown request is reported, a known one is forwarded to the backend.
onPermissionCallback(chatId, requestId, reply) ==
  /\ alive
  /\ msgCount' = msgCount + 1
  /\ lastEvent' = Event("callback_query", chatId, requestId, reply, 0, << >>)
  /\ IF requestId \notin DOMAIN pendingPermissions
     THEN /\ sent' = {Message(chatId, msgCount + 1, "Permission request not found.")}
          /\ calls' = {}
          /\ UNCHANGED handlers
     ELSE /\ sent' = {}
          /\ calls' = {replyToPermission(requestId, reply)}
          /\ handlers' = handlers (+)
               SetToBag({PermissionHandler(chatId, requestId, reply, msgCount + 1,
                                           pendingPermissions[requestId])})
  /\ UNCHANGED mvars
  /\ UNCHANGED <<gvars, alive, tasks, store, nextSid>>
  /\ UNCHANGED <<pendingQuestions, pendingQuestionsByChat, evHandler, nextReq>>

\* The permission handler if it deleted the entry whether or not the backend
\* took the decision.
PermissionReplySettlesForgets(h, ok, editOk) ==
  /\ alive
  /\ BagIn(h, handlers) /\ h.kind = "permission"
  /\ ok \/ editOk
  /\ handlers' = handlers (-) SetToBag({h})
  /\ pendingPermissions' = MapDelete(pendingPermissions, h.requestId)
  /\ sent' = (IF ok
              THEN {Message(h.pending.chatId, h.pending.messageId, "Decision")}
              ELSE {})
             \cup {Message(h.chatId, h.replyTo,
                           IF ok /\ editOk THEN "Response sent."
                           ELSE "Failed to send response.")}
  /\ calls' = {}
  /\ lastEvent' = Event("replyToPermission", h.chatId, h.requestId,
                        IF ok THEN "ok" ELSE "failed", 0, << >>)
  /\ UNCHANGED evPermission
  /\ UNCHANGED <<gvars, alive, msgCount, tasks, store, nextSid>>
  /\ UNCHANGED <<pendingQuestions, pendingQuestionsByChat, evHandler, nextReq>>

\* bot.ts:1355-1374: replyToPermission settles.  When it has succeeded the
\* entry is deleted, the permission message is edited to show the decision
\* and the handler reports "Response sent."; when the call or the edit has
\* thrown the handler reports "Failed to send response.".
PermissionReplySettles(h, ok, editOk) ==
  /\ alive
  /\ BagIn(h, handlers) /\ h.kind = "permission"
  /\ ok \/ editOk
  /\ handlers' = handlers (-) SetToBag({h})
  /\ pendingPermissions' = IF ok THEN MapDelete(pendingPermissions, h.requestId)
                           ELSE pendingPermissions
  /\ sent' = (IF ok
              THEN {Message(h.pending.chatId, h.pending.messageId, "Decision")}
              ELSE {})
             \cup {Message(h.chatId, h.replyTo,
                           IF ok /\ editOk THEN "Response sent."
                           ELSE "Failed to send response.")}
  /\ calls' = {}
  /\ lastEvent' = Event("replyToPermission", h.chatId, h.requestId,
                        IF ok THEN "ok" ELSE "failed", 0, << >>)
  /\ UNCHANGED evPermission
  /\ UNCHANGED <<gvars, alive, msgCount, tasks, store, nextSid>>
  /\ UNCHANGED <<pendingQuestions, pendingQuestionsByChat, evHandler, nextReq>>

\* The guard after createPromptGuard (bot.ts:135): no entry, no timer.
GuardInit ==
  /\ guard = createPromptGuard
  /\ elapsed = 0
  /\ onTimeoutCalls = [k \in 1..(MaxCtl + 1) |-> 0]
  /\ ended = {}
  /\ lastCall = NoCall

\* The bridge after startBot, started with the session store `st' and with
\* the backend about to number its next session `sid': nothing in flight,
\* nothing pending.
BotStarted(st, sid) ==
  /\ GuardInit
  /\ alive = TRUE
  /\ msgCount = 0
  /\ tasks = << >>
  /\ store = st
  /\ nextSid = sid
  /\ sent = {}
  /\ calls = {}
  /\ pendingQuestions = << >>
  /\ pendingQuestionsByChat = << >>
  /\ handlers = EmptyBag
  /\ evHandler = NoPending
  /\ nextReq = 1
  /\ lastEvent = NoEvent
  /\ pendingPermissions = << >>
  /\ evPermission = NoPermission

\* The run loop of startEventStream: where it is suspended ("connect": at
\* client.global.event, line 617; "read": at the next event of the stream,
\* line 620; "handler": at the handler's promise, lines 630 and 643;
\* "sleep": at the backoff timer, line 659; "done": run has returned),
\* whether stop() has aborted its signal, and what its last step did.
Loop(pc, aborted, did) == [pc |-> pc, aborted |-> aborted, did |-> did]

\* opencode.ts:611-664: startEventStream has called run, which has called
\* client.global.event and waits for the connection.
StreamStarted == Loop("connect", FALSE, {"connect"})

\* The connection is open and the loop waits for an event.  Outside the
\* section on the event stream the stream stays open, and the handler the
\* loop waits for is the one in evHandler or evPermission.
StreamOpen == Loop("read", FALSE, {})

\* No store method has been called, nothing has been split, no model is
\* pinned, no button has been tapped, the event stream is open and no
\* sendReply call is followed chunk by chunk.
Unused ==
  /\ split = NoSplit /\ returned = NoReturn
  /\ chatModels = << >> /\ storedModel = << >>
  /\ tapped = 0
  /\ loop = StreamOpen
  /\ replies = << >>

\* Started with the default store (opencode.ts:359, createSessionStore()).
BotIdle == BotStarted(createSessionStore, 1) /\ Unused

\* Started with a store handed over in options.sessionStore (opencode.ts:359)
\* that kept the session of an earlier run (state.ts:46-96): the first chat
\* owns the first session of the backend.
FirstChat == CHOOSE c \in Chats : \A d \in Chats : c <= d

BotResumed ==
  /\ BotStarted(storeSetSessionId(createSessionStore, FirstChat, ProjectDir, 1), 2)
  /\ Unused

\* ------------------------------------------- the guard driven by any client
\* Every timer is scheduled with the same delay timeoutMs (prompt-guard.ts:64),
\* so delays run out in scheduling order: timer k is due once elapsed >= k.
timePasses ==
  /\ elapsed < guard.nextCtl - 1
  /\ elapsed' = elapsed + 1
  /\ UNCHANGED <<guard, onTimeoutCalls, ended>>

TimeElapses ==
  /\ timePasses
  /\ lastCall' = NoCall
  /\ UNCHANGED <<pvars, qvars, xvars>>

GTryStart ==
  \E c \in Chats, m \in MsgIds :
    LET r == tryStart(guard, c, m)
    IN /\ r.ret # 0 => guard.nextCtl <= MaxCtl
       /\ guard' = r.g
       /\ lastCall' = Call("tryStart", c, r.ret,
                           [NullEntry EXCEPT !.abortController = r.ret])
       /\ ended' = ended \cup Dropped(guard, r.g, "tryStart")
       /\ UNCHANGED <<elapsed, onTimeoutCalls>>
       /\ UNCHANGED <<pvars, qvars, xvars>>

GSetSessionId ==
  \E c \in Chats, k \in 1..MaxCtl, s \in SessionIds :
    /\ k < guard.nextCtl
    /\ guard' = setSessionId(guard, c, k, s)
    /\ lastCall' = Call("setSessionId", c, k, [NullEntry EXCEPT !.sessionId = s])
    /\ UNCHANGED <<elapsed, onTimeoutCalls, ended>>
    /\ UNCHANGED <<pvars, qvars, xvars>>

GAbort ==
  \E c \in Chats :
    LET r == abort(guard, c)
    IN /\ guard' = r.g
       /\ ended' = ended \cup Dropped(guard, r.g, "abort")
       /\ lastCall' = Call("abort", c, r.ret.abortController, r.ret)
       /\ UNCHANGED <<elapsed, onTimeoutCalls>>
       /\ UNCHANGED <<pvars, qvars, xvars>>

GFinish ==
  \E c \in Chats :
    /\ guard' = finish(guard, c)
    /\ ended' = ended \cup Dropped(guard, guard', "finish")
    /\ lastCall' = Call("finish", c, 0, NullEntry)
    /\ UNCHANGED <<elapsed, onTimeoutCalls>>
    /\ UNCHANGED <<pvars, qvars, xvars>>

\* setTimeout runs the callback of a scheduled timer once its delay has
\* elapsed.  In this specification onTimeout is an opaque callback (the
\* vi.fn() of tests/prompt-guard.test.ts): only its invocation is recorded.
GTimer ==
  \E t \in guard.timers :
    LET r == timerCallback(guard, t)
    IN /\ t.timeoutId <= elapsed
       /\ guard' = r.g
       /\ onTimeoutCalls' = IF r.onTimeout
                            THEN [onTimeoutCalls EXCEPT ![t.abortController] = @ + 1]
                            ELSE onTimeoutCalls
       /\ lastCall' = Call("timer", t.chatId, t.abortController,
                           [NullEntry EXCEPT !.abortController =
                              IF r.onTimeout THEN t.abortController ELSE 0])
       /\ ended' = ended \cup Dropped(guard, r.g, "timeout")
       /\ UNCHANGED elapsed
       /\ UNCHANGED <<pvars, qvars, xvars>>

NextGuard ==
  GTryStart \/ GSetSessionId \/ GAbort \/ GFinish \/ GTimer \/ TimeElapses

SpecGuard == BotIdle /\ [][NextGuard]_vars

\* ---------------------------------------------- the prompt lifecycle alone
\* Text, photo and document messages and /abort commands of authorized users
\* arrive in any order for both chats; every await settles at any time.
PMessage ==
  \E c \in Chats :
    /\ msgCount < MaxMsgs
    /\ (\E text \in Texts : onText(c, text)) \/ onFile(c)
    /\ UNCHANGED xvars
PInput ==
  \E m \in DOMAIN tasks, ok \in BOOLEAN :
    InputSettles(m, ok) /\ UNCHANGED xvars
PEnsure ==
  \E m \in DOMAIN tasks, ok \in BOOLEAN :
    EnsureSettles(m, ok) /\ UNCHANGED xvars
PPrompt ==
  \E m \in DOMAIN tasks, ok \in BOOLEAN :
    PromptSettles(m, ok) /\ UNCHANGED xvars
PSend ==
  \E m \in DOMAIN tasks :
    SendSettles(m) /\ UNCHANGED xvars
PTimer ==
  \E t \in guard.timers, hostExits \in BOOLEAN :
    PromptTimer(t, hostExits) /\ UNCHANGED xvars
PAbort ==
  \E c \in Chats :
    msgCount < MaxMsgs /\ onAbort(c) /\ UNCHANGED xvars
PTime ==
  /\ alive /\ timePasses
  /\ sent' = {} /\ calls' = {} /\ lastEvent' = NoEvent
  /\ UNCHANGED <<lastCall, alive, msgCount, tasks, store, nextSid, qregs>>
  /\ UNCHANGED xvars

NextPrompt ==
  PMessage \/ PInput \/ PEnsure \/ PPrompt \/ PSend \/ PTimer \/ PAbort \/ PTime

SpecPrompt == BotIdle /\ [][NextPrompt]_vars

\* The same lifecycle with what the event loop guarantees: time
\* passes, a due timer callback runs (setTimeout), and sendReply settles
\* (bot.ts:140-157 catches its own errors).  Nothing is assumed about calls
\* that wait for the backend or for a download: session.create,
\* promptFromChat and input() may never return.
LMessage ==
  \E c \in Chats :
    /\ msgCount < MaxUpdates
    /\ (\E text \in Texts : onText(c, text)) \/ onFile(c)
    /\ UNCHANGED xvars
LAbort ==
  \E c \in Chats :
    msgCount < MaxUpdates /\ onAbort(c) /\ UNCHANGED xvars

NextLive ==
  LMessage \/ PInput \/ PEnsure \/ PPrompt \/ PSend \/ PTimer \/ LAbort \/ PTime

SpecLive ==
  /\ BotIdle /\ [][NextLive]_vars
  /\ WF_vars(PTime) /\ WF_vars(PTimer) /\ WF_vars(PSend)

\* ------------------------------------------------ questions and prompts
\* Text messages, button presses and /abort commands arrive in any order for
\* both chats, the backend asks questions about any session, and every
\* await of a question handler settles at any time.  Prompts are started and
\* stay in flight: promptFromChat and the prompt timeout take longer than
\* the run.
QText ==
  \E c \in Chats, text \in Texts :
    msgCount < MaxUpdates /\ onText(c, text) /\ UNCHANGED xvars
QPress ==
  \E c \in Chats, r \in 1..MaxReqs, action \in {"option", "next", "cancel"},
     i \in OptionIndexes :
    msgCount < MaxUpdates /\ onCallbackQuery(c, r, action, i)
    /\ UNCHANGED xvars
QAbort ==
  \E c \in Chats :
    msgCount < MaxUpdates /\ onAbort(c) /\ UNCHANGED xvars
QAsked ==
  \E sessionId \in 1..MaxSessions, questions \in QuestionLists :
    nextReq <= MaxReqs /\ onQuestionAsked(sessionId, questions)
    /\ UNCHANGED xvars
QSent ==
  \E ok \in BOOLEAN :
    QuestionSent(ok) /\ UNCHANGED xvars
QSubmit ==
  \E h \in BagToSet(handlers), ok \in BOOLEAN :
    SubmitSettles(h, ok) /\ UNCHANGED xvars
QCancel ==
  \E h \in BagToSet(handlers), ok \in BOOLEAN :
    CancelSettles(h, ok) /\ UNCHANGED xvars
QAbortContinues ==
  \E h \in BagToSet(handlers) :
    AbortContinues(h) /\ UNCHANGED xvars
QEnsure ==
  \E m \in DOMAIN tasks, ok \in BOOLEAN :
    EnsureSettles(m, ok) /\ UNCHANGED xvars

NextQuestion ==
  \/ QText \/ QPress \/ QAbort \/ QAsked \/ QSent \/ QSubmit \/ QCancel
  \/ QAbortContinues \/ QEnsure

SpecQuestion == BotResumed /\ [][NextQuestion]_vars

\* ----------------------------------------------- permissions and prompts
\* Text messages start prompts (which create the sessions the backend asks
\* about), the backend asks for permissions about any session, permission
\* buttons are pressed in any chat for any request, and every await of a
\* permission handler settles at any time.  Prompts stay in flight.
MText ==
  \E c \in Chats, text \in Texts :
    msgCount < MaxUpdates /\ onText(c, text) /\ UNCHANGED xvars
MEnsure ==
  \E m \in DOMAIN tasks, ok \in BOOLEAN :
    EnsureSettles(m, ok) /\ UNCHANGED xvars
MAsked ==
  \E sessionId \in 1..MaxSessions :
    nextReq <= MaxReqs /\ onPermissionAsked(sessionId) /\ UNCHANGED uvars
MSent ==
  \E ok \in BOOLEAN :
    PermissionSent(ok) /\ UNCHANGED uvars
MPress ==
  \E c \in Chats, r \in 1..MaxReqs, reply \in PermissionReplies :
    msgCount < MaxUpdates /\ onPermissionCallback(c, r, reply)
    /\ UNCHANGED uvars
MReply ==
  \E h \in BagToSet(handlers), ok \in BOOLEAN, editOk \in BOOLEAN :
    PermissionReplySettles(h, ok, editOk) /\ UNCHANGED uvars

NextPermission ==
  MText \/ MEnsure \/ MAsked \/ MSent \/ MPress \/ MReply

SpecPermission == BotResumed /\ [][NextPermission]_vars


\* ------------------------------------ prompts, questions and permissions
\* The whole bridge: text messages, /abort commands and presses of question
\* and permission buttons arrive in any order for both chats, the backend
\* asks questions and permissions about any session, promptFromChat
\* settles, the prompt timeout runs out, and every await settles at any
\* time.  Telegram delivers each question and permission message and the
\* backend accepts session.create and each answer to a question; a
\* permission reply may fail.  Questions have one single-select
\* sub-question.
BText ==
  \E c \in Chats :
    msgCount < MaxUpdates /\ onText(c, <<"x">>) /\ UNCHANGED xvars
BPress ==
  \E c \in Chats, r \in 1..MaxReqs, action \in {"option", "cancel"} :
    msgCount < MaxUpdates /\ onCallbackQuery(c, r, action, 0)
    /\ UNCHANGED xvars
BAsked ==
  \E sessionId \in 1..MaxSessions :
    nextReq <= MaxReqs /\ onQuestionAsked(sessionId, <<SingleSelect>>)
    /\ UNCHANGED xvars
BSent == QuestionSent(TRUE) /\ UNCHANGED xvars
BSubmit ==
  \E h \in BagToSet(handlers) :
    SubmitSettles(h, TRUE) /\ UNCHANGED xvars
BCancel ==
  \E h \in BagToSet(handlers) :
    CancelSettles(h, TRUE) /\ UNCHANGED xvars
BEnsure ==
  \E m \in DOMAIN tasks :
    EnsureSettles(m, TRUE) /\ UNCHANGED xvars
BPermissionSent == PermissionSent(TRUE) /\ UNCHANGED uvars
BPermissionPress ==
  \E c \in Chats, r \in 1..MaxReqs :
    msgCount < MaxUpdates /\ onPermissionCallback(c, r, "once")
    /\ UNCHANGED uvars
BPermissionReply ==
  \E h \in BagToSet(handlers), ok \in BOOLEAN :
    PermissionReplySettles(h, ok, TRUE) /\ UNCHANGED uvars

NextBridge ==
  \/ BText \/ BPress \/ QAbort \/ BAsked \/ BSent \/ BSubmit \/ BCancel
  \/ QAbortContinues \/ BEnsure
  \/ MAsked \/ BPermissionSent \/ BPermissionPress \/ BPermissionReply
  \/ PPrompt \/ PSend \/ PTimer \/ PTime

SpecBridge == BotResumed /\ [][NextBridge]_vars

\* ------------------------------------------------------- the event stream
\* Event types of the backend's global stream; only the first two have a
\* handler (opencode.ts:626, 639).
EventTypes == {"permission.asked", "question.asked", "other"}

\* A step of the loop that runs no handler of the bot: nothing is sent and
\* no registry changes.
LoopOnly(event) ==
  /\ alive
  /\ sent' = {} /\ calls' = {}
  /\ lastEvent' = event
  /\ UNCHANGED <<gvars, alive, msgCount, tasks, store, nextSid>>
  /\ UNCHANGED qregs
  /\ UNCHANGED mvars

StreamEventOf(op, outcome) == Event(op, 0, 0, outcome, 0, << >>)

\* The condition of the while loop if it did not look at the signal.
whileCheckIgnoresStop(aborted) == Loop("connect", aborted, {"connect"})

\* opencode.ts:615-619, the condition of the while loop and the start of the
\* next round: run returns once the signal is aborted and calls
\* client.global.event otherwise.
whileCheck(aborted) ==
  IF aborted THEN Loop("done", aborted, {})
  ELSE Loop("connect", aborted, {"connect"})

\* The catch block if it ended the loop after an error.
afterCatchGivesUp(aborted) == Loop("done", aborted, {"onError"})

\* opencode.ts:654-660, the catch block: run returns once the signal is
\* aborted; otherwise onError is called and the backoff timer is set.
afterCatch(aborted) ==
  IF aborted THEN Loop("done", aborted, {})
  ELSE Loop("sleep", aborted, {"onError"})

\* The dispatch if the loop did not wait for the handler.
dispatchedUnawaited(handlerRuns) == Loop("read", FALSE, {"handler"})

\* opencode.ts:630-636 and 643-649: the handler has been called; the loop
\* waits until its promise settles, or goes on to the next event if the
\* handler has returned without waiting for anything.
dispatched(handlerRuns) ==
  Loop(IF handlerRuns THEN "handler" ELSE "read", FALSE, {"handler"})

\* The loop if it dispatched an event without looking at the signal.
eventReadUnchecked(aborted) == FALSE

\* opencode.ts:621-623: run returns when an event arrives after stop().
eventRead(aborted) == aborted

\* opencode.ts:617-619: client.global.event settles, with the stream or with
\* an error (a stopped loop may still get either).
StreamConnects(ok) ==
  /\ loop.pc = "connect"
  /\ loop' = IF ok THEN Loop("read", loop.aborted, {})
             ELSE afterCatch(loop.aborted)
  /\ LoopOnly(StreamEventOf("global.event", IF ok THEN "ok" ELSE "failed"))

\* opencode.ts:620-651: the stream yields an event.  A handler that waits
\* for Telegram is in evPermission or evHandler; the handler of a question
\* for a chat with an open question waits for rejectQuestion.
StreamEvent(type, sessionId, questions) ==
  /\ loop.pc = "read"
  /\ IF eventRead(loop.aborted)
     THEN /\ loop' = Loop("done", loop.aborted, {})
          /\ LoopOnly(StreamEventOf(type, "dropped"))
     ELSE CASE type = "permission.asked" ->
                 /\ nextReq <= MaxReqs
                 /\ onPermissionAsked(sessionId)
                 /\ loop' = dispatched(evPermission' # NoPermission)
            [] type = "question.asked" ->
                 /\ nextReq <= MaxReqs
                 /\ onQuestionAsked(sessionId, questions)
                 /\ UNCHANGED mvars
                 /\ loop' = dispatched(evHandler' # NoPending \/ calls' # {})
            [] OTHER ->
                 /\ LoopOnly(StreamEventOf(type, "ignored"))
                 /\ loop' = Loop("read", loop.aborted, {})

\* bot.ts:500-511, 546-557 and 530-535: what the handler waited for settles
\* (the handlers catch every error), the handler returns and the loop asks
\* the stream for the next event.
StreamHandlerSettles(ok) ==
  /\ loop.pc = "handler"
  /\ loop' = Loop("read", loop.aborted, {})
  /\ IF evPermission # NoPermission THEN PermissionSent(ok)
     ELSE IF evHandler # NoPending THEN QuestionSent(ok) /\ UNCHANGED mvars
     ELSE LoopOnly(StreamEventOf("rejectQuestion",
                                 IF ok THEN "ok" ELSE "failed"))

\* opencode.ts:620-653 and 615: the stream ends without an error; the
\* for-await loop and the try block are left and the while loop goes round.
StreamEnds ==
  /\ loop.pc = "read"
  /\ loop' = whileCheck(loop.aborted)
  /\ LoopOnly(StreamEventOf("stream", "ended"))

\* opencode.ts:620 and 654-660: reading the stream throws.
StreamFails ==
  /\ loop.pc = "read"
  /\ loop' = afterCatch(loop.aborted)
  /\ LoopOnly(StreamEventOf("stream", "failed"))

\* opencode.ts:659 and 615: the backoff timer of 1000 ms fires and the while
\* loop goes round.
BackoffOver ==
  /\ loop.pc = "sleep"
  /\ loop' = whileCheck(loop.aborted)
  /\ LoopOnly(StreamEventOf("backoff", "over"))

\* opencode.ts:666, stop(): abortController.abort().
stop ==
  /\ ~loop.aborted
  /\ loop' = [loop EXCEPT !.aborted = TRUE, !.did = {}]
  /\ LoopOnly(StreamEventOf("stop", "none"))

\* The bridge right after startEventStream, with the session of the first
\* chat in its store: the backend sends events about both sessions, the
\* stream fails or ends at any time, and stop() is called at any time.
StreamInit ==
  /\ BotStarted(storeSetSessionId(createSessionStore, FirstChat, ProjectDir, 1), 2)
  /\ split = NoSplit /\ returned = NoReturn
  /\ chatModels = << >> /\ storedModel = << >>
  /\ tapped = 0
  /\ loop = StreamStarted
  /\ replies = << >>

EFrame == UNCHANGED <<split, returned, cvars, tapped, replies>>

EConnects == \E ok \in BOOLEAN : StreamConnects(ok) /\ EFrame
EEvent ==
  \E type \in EventTypes, sessionId \in 1..MaxSessions :
    StreamEvent(type, sessionId, <<SingleSelect>>) /\ EFrame
ESettles == \E ok \in BOOLEAN : StreamHandlerSettles(ok) /\ EFrame
EEnds == StreamEnds /\ EFrame
EFails == StreamFails /\ EFrame
EBackoff == BackoffOver /\ EFrame
EStop == stop /\ EFrame

NextStream ==
  EConnects \/ EEvent \/ ESettles \/ EEnds \/ EFails \/ EBackoff \/ EStop

SpecStream == StreamInit /\ [][NextStream]_vars

\* The same with the scheduling of the event loop: a pending connection
\* attempt settles, the handler's await settles, the backoff timer fires,
\* and a read of the stream settles once the signal is aborted.
EAbortedRead == loop.aborted /\ (EEvent \/ EEnds \/ EFails)

SpecStreamLive ==
  /\ StreamInit /\ [][NextStream]_vars
  /\ WF_vars(EConnects) /\ WF_vars(ESettles) /\ WF_vars(EBackoff)
  /\ WF_vars(EAbortedRead)

\* ---------------------------------------------------- replies in chunks
\* TELEGRAM_MESSAGE_LIMIT (telegram.ts:1) is 4096; the model scales it down
\* so that the texts below split into one, two and three chunks.
TELEGRAM_MESSAGE_LIMIT == 2

\* Replies and error texts handed to sendReply.
ReplyTexts ==
  {<<"a">>, <<"a", "b">>, <<"a", "b", "a">>, <<"a", "b", "a", "b", "b">>}

\* A bot.telegram.sendMessage call: the chat, the text and the message_id of
\* reply_parameters (0: none).
SendMessage(chatId, text, replyTo) ==
  [chatId |-> chatId, text |-> text, replyTo |-> replyTo]

\* sendReply if every chunk carried reply_parameters.
sendChunkAlwaysReplies(chatId, replyToMessageId, chunks, index) ==
  SendMessage(chatId, chunks[index + 1], replyToMessageId)

\* bot.ts:147-152, the body of the for loop for the chunk at `index'
\* (counted from 0): the sendMessage call it awaits.
sendChunk(chatId, replyToMessageId, chunks, index) ==
  SendMessage(chatId, chunks[index + 1],
              IF index = 0 /\ replyToMessageId # 0 THEN replyToMessageId
              ELSE 0)

\* A sendReply call in progress or returned: its chunks, the index of the
\* chunk whose sendMessage it awaits, the sendMessage calls made so far, and
\* how it ended ("": not yet; "sent": after the last chunk; "caught": in the
\* catch block of line 153).
Reply(chunks, index, log, outcome) ==
  [chunks |-> chunks, index |-> index, log |-> log, ended |-> outcome]

\* bot.ts:140-152, sendReply up to its first await: the text is split and
\* the first chunk is sent.
sendReply(chatId, replyToMessageId, text) ==
  LET chunks == splitTelegramMessage(text, TELEGRAM_MESSAGE_LIMIT)
  IN Reply(chunks, 0, <<sendChunk(chatId, replyToMessageId, chunks, 0)>>, "")

\* The task of message m calls sendReply in this step (bot.ts:796, 819-854).
CallsSendReply(m) ==
  /\ m \in DOMAIN tasks' /\ tasks'[m].pc = "send"
  /\ m \notin DOMAIN tasks \/ tasks[m].pc # "send"

\* Every task that calls sendReply in this step does so with the given text.
StartsReply(text) ==
  replies' = [m \in DOMAIN replies \cup {k \in DOMAIN tasks' : CallsSendReply(k)}
                |-> IF CallsSendReply(m)
                    THEN sendReply(tasks'[m].chatId, m, text)
                    ELSE replies[m]]

\* bot.ts:146-152: the sendMessage of a chunk that is not the last one has
\* succeeded, and the loop sends the next chunk.
ChunkSent(m) ==
  LET r == replies[m]
      next == sendChunk(tasks[m].chatId, m, r.chunks, r.index + 1)
  IN /\ alive
     /\ m \in DOMAIN tasks /\ tasks[m].pc = "send"
     /\ m \in DOMAIN replies /\ r.ended = ""
     /\ r.index + 1 < Len(r.chunks)
     /\ replies' = [replies EXCEPT ![m].index = @ + 1,
                                   ![m].log = Append(@, next)]
     /\ sent' = {Message(tasks[m].chatId, next.replyTo, "chunk")}
     /\ calls' = {}
     /\ lastEvent' = NoEvent
     /\ UNCHANGED <<gvars, alive, msgCount, tasks, store, nextSid>>
     /\ UNCHANGED qregs

\* bot.ts:146-156 and 856-858: the sendMessage of the last chunk has
\* succeeded (ok), or the sendMessage of any chunk has thrown and the catch
\* block has logged the error; sendReply returns and the task runs its
\* finally block.
ReplySettles(m, ok) ==
  LET r == replies[m]
  IN /\ m \in DOMAIN replies /\ r.ended = ""
     /\ ok => r.index + 1 = Len(r.chunks)
     /\ SendSettles(m)
     /\ replies' = [replies EXCEPT ![m].ended = IF ok THEN "sent" ELSE "caught"]

\* Text messages start prompts in both chats; session.create and
\* promptFromChat return or throw, and every sendMessage of a reply or of an
\* error text succeeds or throws.  The prompt timeout is longer than the run.
RFrame == UNCHANGED <<mvars, split, returned, cvars, tapped, loop>>

RMessage ==
  \E c \in Chats :
    /\ msgCount < MaxUpdates
    /\ onText(c, <<"x">>)
    /\ UNCHANGED replies /\ RFrame
REnsure ==
  \E m \in DOMAIN tasks, ok \in BOOLEAN, text \in ReplyTexts :
    EnsureSettles(m, ok) /\ StartsReply(text) /\ RFrame
RPrompt ==
  \E m \in DOMAIN tasks, ok \in BOOLEAN, text \in ReplyTexts :
    PromptSettles(m, ok) /\ StartsReply(text) /\ RFrame
RChunk ==
  \E m \in DOMAIN tasks :
    ChunkSent(m) /\ RFrame
RSettles ==
  \E m \in DOMAIN tasks, ok \in BOOLEAN :
    ReplySettles(m, ok) /\ RFrame

NextReply == RMessage \/ REnsure \/ RPrompt \/ RChunk \/ RSettles

SpecReply == BotResumed /\ [][NextReply]_vars

\* ------------------------------------------------ taps on question buttons
\* The keyboard for sub-question k of a request has been rendered: for the
\* first one when the question message was sent (bot.ts:546-551), for every
\* later one by the updateQuestionMessage of the advance that reached it
\* (bot.ts:347-348).
Rendered(requestId, k) ==
  IF requestId \in DOMAIN pendingQuestions
  THEN k <= pendingQuestions[requestId].currentIndex
  ELSE k = 0

\* bot.ts:247-274, buildQuestionKeyboardRows: the keyboard for sub-question
\* k of the request has the button with this callback data.  The data names
\* the request, the action and the option, not the sub-question.
HasButton(requestId, k, action, optionIndex) ==
  LET questions == pendingQuestions[requestId].questions
  IN IF requestId \notin DOMAIN pendingQuestions \/ k >= Len(questions)
     THEN action = "cancel"
     ELSE CASE action = "option" -> optionIndex < Len(questions[k + 1].options)
            [] action = "next" -> questions[k + 1].multiple
            [] OTHER -> TRUE

\* Questions as in the section above, without prompts: a user taps a button
\* of any keyboard rendered so far for a request, and the callback query is
\* handled at any later time.
TAsked ==
  \E sessionId \in 1..MaxSessions, questions \in QuestionLists :
    nextReq <= MaxReqs /\ onQuestionAsked(sessionId, questions)
    /\ UNCHANGED xvars
TSent ==
  \E ok \in BOOLEAN :
    QuestionSent(ok) /\ UNCHANGED xvars
TPress ==
  \E c \in Chats, r \in 1..MaxReqs, action \in {"option", "next", "cancel"},
     i \in OptionIndexes, k \in 0..1 :
    /\ msgCount < MaxMsgs
    /\ Rendered(r, k) /\ HasButton(r, k, action, i)
    /\ onCallbackQuery(c, r, action, i)
    /\ tapped' = k
    /\ UNCHANGED <<mvars, split, returned, cvars, loop, replies>>
TText ==
  \E c \in Chats :
    /\ msgCount < MaxMsgs
    /\ getPendingQuestionForChat(c) # NoPending
    /\ onText(c, <<"x">>)
    /\ UNCHANGED xvars
TSubmit ==
  \E h \in BagToSet(handlers), ok \in BOOLEAN :
    SubmitSettles(h, ok) /\ UNCHANGED xvars
TCancel ==
  \E h \in BagToSet(handlers), ok \in BOOLEAN :
    CancelSettles(h, ok) /\ UNCHANGED xvars

NextTap == TAsked \/ TSent \/ TPress \/ TText \/ TSubmit \/ TCancel

SpecTap == BotResumed /\ [][NextTap]_vars

\* ------------------------------------------------------ the pinned models
\* Model references (providerID/modelID) and null.
Models == {1, 2}

NoModel == 0

\* state.ts:98-137, the chat model store: getModel returns null without a
\* row, setModel inserts the row or replaces its model.
createChatModelStore == << >>

getModel(cm, chatId, projectDir) ==
  IF <<chatId, projectDir>> \in DOMAIN cm THEN cm[<<chatId, projectDir>>]
  ELSE NoModel

setModel(cm, chatId, projectDir, model) ==
  MapSet(cm, <<chatId, projectDir>>, model)

\* bot.ts:764, the constant storedModel of the task of message m: what
\* getModel returned just before the task called promptFromChat.
storedModelOf(m) ==
  IF m \in DOMAIN storedModel THEN storedModel[m] ELSE NoModel

\* The task of message m calls promptFromChat in this step.
CallsPrompt(m) ==
  /\ m \in DOMAIN tasks' /\ tasks'[m].pc = "prompt"
  /\ m \notin DOMAIN tasks \/ tasks[m].pc # "prompt"

\* bot.ts:764-776: a task that calls promptFromChat reads the pinned model
\* of its chat first and keeps it.
ReadsModel ==
  LET read(m) == getModel(chatModels, tasks'[m].chatId, ProjectDir)
      readers == {m \in DOMAIN tasks' : CallsPrompt(m) /\ read(m) # NoModel}
  IN storedModel' = [m \in DOMAIN storedModel \cup readers |->
                       IF m \in readers THEN read(m) ELSE storedModel[m]]

\* bot.ts:792-794, after promptFromChat has returned result.model: the model
\* is pinned if the task had read none and the response declares one.
pinOnSuccess(cm, chatId, stored, model) ==
  IF stored = NoModel /\ model # NoModel
  THEN setModel(cm, chatId, ProjectDir, model)
  ELSE cm

\* A /model set handler waiting for listModels (bot.ts:1037).
ModelHandler(chatId, model) ==
  [kind |-> "model", chatId |-> chatId, model |-> model]

\* bot.ts:976-1037, /model set <provider>/<model> of an authorized user in a
\* chat with a configured project: the handler asks the backend for its
\* models and waits.
onModelSet(chatId, model) ==
  /\ alive
  /\ msgCount' = msgCount + 1
  /\ handlers' = handlers (+) SetToBag({ModelHandler(chatId, model)})
  /\ calls' = {ApiCall("listModels", 0, << >>)}
  /\ sent' = {}
  /\ lastEvent' = Event("model", chatId, 0, "set", 0, << >>)
  /\ UNCHANGED <<pendingQuestions, pendingQuestionsByChat, evHandler, nextReq>>
  /\ UNCHANGED <<gvars, alive, tasks, store, nextSid>>
  /\ UNCHANGED storedModel /\ UNCHANGED chatModels

\* bot.ts:1037-1061: listModels settles.  The model is pinned and confirmed
\* if the backend knows it ("found"); otherwise the user is told that it is
\* unknown ("missing") or that the change failed ("failed").
ModelSetSettles(h, outcome) ==
  /\ alive
  /\ BagIn(h, handlers) /\ h.kind = "model"
  /\ handlers' = handlers (-) SetToBag({h})
  /\ chatModels' = IF outcome = "found"
                   THEN setModel(chatModels, h.chatId, ProjectDir, h.model)
                   ELSE chatModels
  /\ sent' = {Message(h.chatId, 0, IF outcome = "found" THEN "modelSet"
                                   ELSE outcome)}
  /\ calls' = {}
  /\ lastEvent' = Event("listModels", h.chatId, 0, outcome, 0, << >>)
  /\ UNCHANGED <<pendingQuestions, pendingQuestionsByChat, evHandler, nextReq>>
  /\ UNCHANGED <<gvars, alive, msgCount, tasks, store, nextSid>>
  /\ UNCHANGED storedModel

\* Text messages and /model set commands of authorized users arrive in any
\* order for both chats; the first chat has a session already.  The prompt
\* timeout is longer than the run, and a response may declare any model or
\* none.
CMessage ==
  \E c \in Chats :
    /\ msgCount < MaxUpdates
    /\ onText(c, <<"x">>) /\ ReadsModel
    /\ UNCHANGED <<chatModels, mvars, split, returned, tapped, loop, replies>>
CEnsure ==
  \E m \in DOMAIN tasks, ok \in BOOLEAN :
    /\ EnsureSettles(m, ok) /\ ReadsModel
    /\ UNCHANGED <<chatModels, mvars, split, returned, tapped, loop, replies>>
CPrompt ==
  \E m \in DOMAIN tasks, ok \in BOOLEAN, model \in Models \cup {NoModel} :
    /\ PromptSettles(m, ok)
    /\ chatModels' = IF ok
                     THEN pinOnSuccess(chatModels, tasks[m].chatId,
                                       storedModelOf(m), model)
                     ELSE chatModels
    /\ UNCHANGED <<storedModel, mvars, split, returned, tapped, loop, replies>>
CSend ==
  \E m \in DOMAIN tasks :
    SendSettles(m) /\ UNCHANGED xvars
CModelSet ==
  \E c \in Chats, model \in Models :
    /\ msgCount < MaxUpdates
    /\ onModelSet(c, model)
    /\ UNCHANGED <<mvars, split, returned, tapped, loop, replies>>
CModelSetSettles ==
  \E h \in BagToSet(handlers), outcome \in {"found", "missing", "failed"} :
    ModelSetSettles(h, outcome) /\ UNCHANGED <<mvars, split, returned, tapped, loop, replies>>

NextModel ==
  CMessage \/ CEnsure \/ CPrompt \/ CSend \/ CModelSet \/ CModelSetSettles

SpecModel == BotResumed /\ [][NextModel]_vars

\* ------------------------------------------------- splitting a message
\* Any text of at most MaxLen characters is split at any limit from 1 to
\* MaxLimit.
SplitInit ==
  /\ BotStarted(createSessionStore, 1)
  /\ returned = NoReturn
  /\ chatModels = << >> /\ storedModel = << >>
  /\ tapped = 0
  /\ loop = StreamOpen
  /\ replies = << >>
  /\ \E text \in Strings, limit \in 1..MaxLimit :
       split = Split(text, limit, FALSE, << >>)

SplitMessage ==
  /\ ~split.done
  /\ split' = Split(split.text, split.limit, TRUE,
                    splitTelegramMessage(split.text, split.limit))
  /\ UNCHANGED <<gvars, pvars, qvars, mvars, returned, cvars, tapped, loop, replies>>

NextSplit == SplitMessage

SpecSplit == SplitInit /\ [][NextSplit]_vars

\* ------------------------------------------------- the session store alone
\* The methods of one store called in any order, with the chats, the project
\* directories of the store's tests and the session ids below.
ProjectDirs == {"/repo/a", "/repo/b"}

StoreSessionIds == {1, 2}

StoreCall(st, ret) ==
  /\ store' = st
  /\ returned' = ret
  /\ UNCHANGED <<gvars, alive, msgCount, tasks, nextSid, sent, calls>>
  /\ UNCHANGED <<qvars, mvars, split, cvars, tapped, loop, replies>>

SSet ==
  \E chatId \in Chats, projectDir \in ProjectDirs, sessionId \in StoreSessionIds :
    StoreCall(storeSetSessionId(store, chatId, projectDir, sessionId),
              Return("setSessionId", sessionId,
                     [chatId |-> chatId, projectDir |-> projectDir], FALSE))

SClear ==
  \E chatId \in Chats, projectDir \in ProjectDirs :
    StoreCall(clearSession(store, chatId, projectDir).st,
              Return("clearSession", getSessionId(store, chatId, projectDir),
                     [chatId |-> chatId, projectDir |-> projectDir],
                     clearSession(store, chatId, projectDir).existed))

SClearAll == StoreCall(clearAll(store), Return("clearAll", 0, NoOwner, FALSE))

NextStore == SSet \/ SClear \/ SClearAll

SpecStore == BotIdle /\ [][NextStore]_vars


\* ===================================================================== claims

\* The entry of chat c in guard state g, if any, belongs to controller k.
LiveCtl(g, c, k) == c \in DOMAIN g.inFlight /\ g.inFlight[c].abortController = k

\* C1: tryStart(C) returns a token if and only if C has no entry; a refused
\* tryStart changes nothing; an accepted one stores an entry for the returned
\* token and leaves the entries of all other chats alone; an entry stays
\* until finish(C), abort(C) or a timer step for C removes it.
C1_MutualExclusion ==
  [][/\ lastCall'.op = "tryStart" =>
          LET c == lastCall'.chatId
          IN IF c \in DOMAIN guard.inFlight
             THEN lastCall'.abortController = 0 /\ guard' = guard
             ELSE /\ lastCall'.abortController # 0
                  /\ lastCall'.abortController \notin guard.aborted
                  /\ LiveCtl(guard', c, lastCall'.abortController)
                  /\ \A d \in DOMAIN guard.inFlight :
                       /\ d \in DOMAIN guard'.inFlight
                       /\ guard'.inFlight[d] = guard.inFlight[d]
     /\ \A c \in DOMAIN guard.inFlight :
          ~LiveCtl(guard', c, guard.inFlight[c].abortController) =>
             /\ lastCall'.op \in {"finish", "abort", "timer"}
             /\ lastCall'.chatId = c
    ]_vars

\* C1 witness: a tryStart was refused for a chat while both chats hold an
\* entry, after three tokens were handed out (so one entry was removed and a
\* later tryStart succeeded again).
C1_Witness ==
  /\ lastCall.op = "tryStart"
  /\ lastCall.abortController = 0
  /\ DOMAIN guard.inFlight = Chats
  /\ guard.nextCtl = 4
  /\ ended # {}

\* C3: onTimeout is invoked at most once per entry, never for an entry that
\* finish or abort removed, and not before the entry's delay has elapsed;
\* once it has been invoked the token is cancelled and the entry is gone, and
\* right after the timer step the chat has no entry, so that tryStart succeeds.
C3_TimeoutOnce ==
  /\ \A k \in DOMAIN onTimeoutCalls :
       /\ onTimeoutCalls[k] <= 1
       /\ onTimeoutCalls[k] = 1 =>
            /\ k <= elapsed
            /\ k \in guard.aborted
            /\ \A c \in Chats : ~LiveCtl(guard, c, k)
            /\ \A e \in ended : e.abortController = k => e.by = "timeout"
  /\ (lastCall.op = "timer" /\ lastCall.ret.abortController # 0) =>
       /\ onTimeoutCalls[lastCall.abortController] = 1
       /\ lastCall.chatId \notin DOMAIN guard.inFlight
       /\ tryStart(guard, lastCall.chatId, 1).ret # 0

\* C3 witness: a chat whose entry timed out has been given a new token by
\* the very next tryStart.
C3_Witness ==
  /\ lastCall.op = "tryStart"
  /\ lastCall.abortController > 1
  /\ onTimeoutCalls[lastCall.abortController - 1] = 1
  /\ [chatId |-> lastCall.chatId,
      abortController |-> lastCall.abortController - 1,
      by |-> "timeout"] \in ended

\* C4: a timer only ever acts on the entry it was scheduled for.  A timer
\* step removes no entry of another token, cancels no other token and
\* reports no other timeout; and the timer of an entry that finish or abort
\* removed is not scheduled any more, so that its delay running out while a
\* later entry of the same chat is live does nothing to that entry.
C4_StaleTimerHarmless ==
  [][/\ lastCall'.op = "timer" =>
          LET k == lastCall'.abortController
          IN /\ \A c \in DOMAIN guard.inFlight :
                  guard.inFlight[c].abortController # k =>
                     /\ c \in DOMAIN guard'.inFlight
                     /\ guard'.inFlight[c] = guard.inFlight[c]
             /\ guard'.aborted \subseteq guard.aborted \cup {k}
             /\ \A j \in DOMAIN onTimeoutCalls :
                  j # k => onTimeoutCalls'[j] = onTimeoutCalls[j]
     /\ \A t \in guard'.timers : LiveCtl(guard', t.chatId, t.abortController)
     /\ \A e \in ended' : e.by \in {"finish", "abort"} =>
          onTimeoutCalls'[e.abortController] = 0
    ]_vars

\* C4 witness: the delay of a timer whose entry was finished or aborted has
\* just run out while a later entry of the same chat is live and untouched.
C4_Witness ==
  /\ lastCall = NoCall
  /\ \E e \in ended :
       /\ e.by \in {"finish", "abort"}
       /\ e.abortController = elapsed
       /\ e.chatId \in DOMAIN guard.inFlight
       /\ guard.inFlight[e.chatId].abortController > e.abortController
       /\ guard.inFlight[e.chatId].abortController \notin guard.aborted
       /\ onTimeoutCalls[e.abortController] = 0

\* C6: abort(C) on an existing entry returns the entry's controller, its
\* replyToMessageId and the session id recorded on it, cancels the token and
\* removes the entry; abort(C) without an entry returns null and changes
\* nothing; a setSessionId with the token of the live entry is what records
\* the session id; onTimeout is never invoked for an aborted entry.
C6_AbortReturnsState ==
  [][/\ lastCall'.op = "abort" =>
          LET c == lastCall'.chatId
          IN IF c \in DOMAIN guard.inFlight
             THEN /\ lastCall'.ret =
                       [abortController |-> guard.inFlight[c].abortController,
                        replyToMessageId |-> guard.inFlight[c].replyToMessageId,
                        sessionId |-> guard.inFlight[c].sessionId]
                  /\ c \notin DOMAIN guard'.inFlight
                  /\ guard.inFlight[c].abortController \in guard'.aborted
                  /\ \A d \in DOMAIN guard.inFlight \ {c} :
                       LiveCtl(guard', d, guard.inFlight[d].abortController)
             ELSE lastCall'.ret = NullEntry /\ guard' = guard
     /\ \A c \in DOMAIN guard.inFlight :
          LiveCtl(guard', c, guard.inFlight[c].abortController) =>
             IF /\ lastCall'.op = "setSessionId"
                /\ lastCall'.chatId = c
                /\ lastCall'.abortController = guard.inFlight[c].abortController
             THEN guard'.inFlight[c].sessionId = lastCall'.ret.sessionId
             ELSE guard'.inFlight[c].sessionId = guard.inFlight[c].sessionId
     /\ \A e \in ended' : e.by = "abort" =>
          onTimeoutCalls'[e.abortController] = 0
    ]_vars

\* C6 witness: an abort whose timer was already due returned the recorded
\* session id and reply affinity, and no timeout was reported for it.
C6_Witness ==
  /\ lastCall.op = "abort"
  /\ lastCall.ret.sessionId # 0
  /\ lastCall.ret.replyToMessageId # 0
  /\ lastCall.abortController \in guard.aborted
  /\ lastCall.abortController <= elapsed
  /\ onTimeoutCalls[lastCall.abortController] = 0


\* The task of message m is running with an untriggered cancellation token:
\* it was accepted by tryStart, its finally block has not run, and its
\* controller has not been aborted.
RunningUntriggered(m) ==
  /\ m \in DOMAIN tasks
  /\ tasks[m].pc # "done"
  /\ tasks[m].abortController \notin guard.aborted

\* C2: in every conversation at most one accepted prompt task with an
\* untriggered cancellation token is running at a time, and a message that
\* arrives meanwhile is answered with the "previous message has not been
\* replied to yet" notice instead of getting a task of its own.
C2_OnePromptPerChat ==
  \A a \in DOMAIN tasks, b \in DOMAIN tasks :
    (a < b /\ tasks[a].chatId = tasks[b].chatId /\ RunningUntriggered(a))
      => ~RunningUntriggered(b)

\* C5: once the timeout has fired for a prompt (its entry was removed by the
\* timer and its token cancelled), no step sends a success reply for that
\* prompt's message, however late promptFromChat resolves.
C5_NoReplyAfterTimeout ==
  \A m \in DOMAIN tasks :
    [chatId |-> tasks[m].chatId,
     abortController |-> tasks[m].abortController,
     by |-> "timeout"] \in ended
      => Message(tasks[m].chatId, m, "reply") \notin sent


\* ---------------------------------------------------------------- questions
\* The set of entries of a list.
Entries(list) == {list[i] : i \in 1..Len(list)}

\* The labels of the options of a sub-question.
OptionLabels(question) == Entries(question.options)

\* The sub-question an open question is at, and its answer list.
CurrentQuestion(pending) == pending.questions[pending.currentIndex + 1]
CurrentAnswer(pending) == pending.answers[pending.currentIndex + 1]

\* The step handles a Telegram update (each takes the next message id).
HandlesUpdate(op) == msgCount' = msgCount + 1 /\ lastEvent'.op = op

\* The step handles a press of a button of the open question of the chat the
\* press comes from, which is at a sub-question.
PressesButton(action) ==
  /\ HandlesUpdate("callback_query")
  /\ lastEvent'.action = action
  /\ lastEvent'.requestId \in DOMAIN pendingQuestions
  /\ pendingQuestions[lastEvent'.requestId].chatId = lastEvent'.chatId

\* C7: a text message that arrives while its chat has an open question is
\* handled as a typed answer: either the user is told that this sub-question
\* takes no typed answer or that the answer is empty, or the trimmed text
\* becomes the answer of the current sub-question; the step leaves the guard
\* and the prompt tasks alone, calls no promptFromChat and sends no
\* "previous message has not been replied to yet" notice.
C7_TextAnswersQuestion ==
  [][(HandlesUpdate("text")
      /\ getPendingQuestionForChat(lastEvent'.chatId) # NoPending)
     => LET chatId == lastEvent'.chatId
            pending == getPendingQuestionForChat(chatId)
            trimmed == trim(lastEvent'.text)
        IN /\ guard' = guard /\ ended' = ended
           /\ tasks' = tasks
           /\ \A call \in calls' : call.op = "replyToQuestion"
           /\ Message(chatId, msgCount', "blocked") \notin sent'
           /\ IF ~CurrentQuestion(pending).custom
              THEN /\ sent' = {Message(chatId, msgCount',
                         "Please choose one of the options for this question.")}
                   /\ UNCHANGED <<pendingQuestions, pendingQuestionsByChat>>
              ELSE IF trimmed = << >>
              THEN /\ sent' = {Message(chatId, msgCount', "Answer cannot be empty.")}
                   /\ UNCHANGED <<pendingQuestions, pendingQuestionsByChat>>
              ELSE pendingQuestions'[pending.requestId].answers
                     [pending.currentIndex + 1] = <<trimmed>>
    ]_vars

\* C7 witness: a typed answer has just been recorded for the open question
\* of a chat whose earlier prompt is still in flight at promptFromChat; the
\* message started no task.
C7_Witness ==
  /\ lastEvent.op = "text"
  /\ isInFlight(guard, lastEvent.chatId)
  /\ msgCount \notin DOMAIN tasks
  /\ \E m \in DOMAIN tasks :
       tasks[m].chatId = lastEvent.chatId /\ tasks[m].pc = "prompt"
  /\ \E r \in DOMAIN pendingQuestions :
       /\ pendingQuestions[r].chatId = lastEvent.chatId
       /\ pendingQuestions[r].currentIndex = 1
       /\ pendingQuestions[r].answers[1] = <<trim(lastEvent.text)>>

\* Each chat has at most one open question and the two indexes agree.
RegistryAgrees ==
  /\ \A c \in DOMAIN pendingQuestionsByChat :
       /\ pendingQuestionsByChat[c] \in DOMAIN pendingQuestions
       /\ pendingQuestions[pendingQuestionsByChat[c]].chatId = c
  /\ \A r \in DOMAIN pendingQuestions :
       /\ pendingQuestions[r].requestId = r
       /\ pendingQuestions[r].chatId \in DOMAIN pendingQuestionsByChat
       /\ pendingQuestionsByChat[pendingQuestions[r].chatId] = r
  /\ \A r1 \in DOMAIN pendingQuestions, r2 \in DOMAIN pendingQuestions :
       pendingQuestions[r1].chatId = pendingQuestions[r2].chatId => r1 = r2

\* C8: in every state each chat has at most one open question and the
\* by-request and by-chat indexes agree; a question.asked event for a chat
\* that has an open question calls rejectQuestion for the new request id,
\* registers nothing (now or later) and changes neither index nor any entry.
C8_OneQuestionPerChat ==
  /\ []RegistryAgrees
  /\ [][(lastEvent'.op = "question.asked"
         /\ getPendingQuestionForChat(lastEvent'.chatId) # NoPending)
        => /\ lastEvent'.requestId = nextReq
           /\ calls' = {ApiCall("rejectQuestion", nextReq, << >>)}
           /\ evHandler' = NoPending
           /\ nextReq \notin DOMAIN pendingQuestions'
           /\ UNCHANGED <<pendingQuestions, pendingQuestionsByChat, handlers>>
       ]_vars

\* C8 witness: a chat has an open question that is already at its second
\* sub-question, and a further request for that chat has just been rejected.
C8_Witness ==
  /\ lastEvent.op = "question.asked"
  /\ calls = {ApiCall("rejectQuestion", lastEvent.requestId, << >>)}
  /\ lastEvent.requestId \notin DOMAIN pendingQuestions
  /\ \E r \in DOMAIN pendingQuestions :
       /\ pendingQuestions[r].chatId = lastEvent.chatId
       /\ pendingQuestions[r].currentIndex = 1


\* The step records an answer for the current sub-question of an open
\* question and moves on: a typed answer that is not blank where typed
\* answers are allowed, a pressed option of a single-select sub-question, or
\* Next/Submit on a multi-select sub-question with at least one entry.
\* AnsweredRequest is the request and GivenAnswer the answer list.
AnsweredRequest ==
  IF lastEvent'.op = "text"
  THEN getPendingQuestionForChat(lastEvent'.chatId).requestId
  ELSE lastEvent'.requestId

GivenAnswer ==
  LET pending == pendingQuestions[AnsweredRequest]
  IN IF lastEvent'.op = "text" THEN <<trim(lastEvent'.text)>>
     ELSE IF lastEvent'.action = "option"
     THEN <<CurrentQuestion(pending).options[lastEvent'.optionIndex + 1]>>
     ELSE CurrentAnswer(pending)

Answering ==
  \/ /\ HandlesUpdate("text")
     /\ getPendingQuestionForChat(lastEvent'.chatId) # NoPending
     /\ CurrentQuestion(getPendingQuestionForChat(lastEvent'.chatId)).custom
     /\ trim(lastEvent'.text) # << >>
  \/ /\ PressesButton("option")
     /\ ~CurrentQuestion(pendingQuestions[lastEvent'.requestId]).multiple
     /\ lastEvent'.optionIndex <
          Len(CurrentQuestion(pendingQuestions[lastEvent'.requestId]).options)
  \/ /\ PressesButton("next")
     /\ CurrentQuestion(pendingQuestions[lastEvent'.requestId]).multiple
     /\ Len(CurrentAnswer(pendingQuestions[lastEvent'.requestId])) > 0

\* Answering, as the claim (and its amended form) describes it: before the
\* last sub-question the index goes up by one and no backend call is made;
\* at the last sub-question replyToQuestion is called once, with the N
\* answer lists in sub-question order, the last being the answer just given.
\* No other step calls replyToQuestion or changes an index, and an index
\* stays within 0..N-1.
QuestionSequencing ==
  /\ \A r \in DOMAIN pendingQuestions' :
       /\ pendingQuestions'[r].currentIndex \in
            0..(Len(pendingQuestions'[r].questions) - 1)
       /\ r \in DOMAIN pendingQuestions =>
            /\ pendingQuestions'[r].currentIndex >= pendingQuestions[r].currentIndex
            /\ pendingQuestions'[r].currentIndex # pendingQuestions[r].currentIndex
                 => Answering /\ r = AnsweredRequest
  /\ (\E call \in calls' : call.op = "replyToQuestion") => Answering
  /\ Answering =>
       LET r == AnsweredRequest
           pending == pendingQuestions[r]
           N == Len(pending.questions)
           answers == [pending.answers EXCEPT ![pending.currentIndex + 1] = GivenAnswer]
       IN /\ r \in DOMAIN pendingQuestions'
          /\ pendingQuestions'[r].answers = answers
          /\ IF pending.currentIndex < N - 1
             THEN /\ pendingQuestions'[r].currentIndex = pending.currentIndex + 1
                  /\ calls' = {}
             ELSE /\ pendingQuestions'[r].currentIndex = pending.currentIndex
                  /\ calls' = {ApiCall("replyToQuestion", r, answers)}
                  /\ Len(answers) = N
                  /\ \A i \in 1..N : Len(answers[i]) > 0

\* C9 (amended): answering a sub-question that is not the last advances
\* currentIndex by exactly one without a backend call; currentIndex never
\* decreases and never exceeds N-1; answering the last sub-question calls
\* replyToQuestion exactly once with the N answer lists in order, and the
\* entry is destroyed when that call has succeeded, while a failed call
\* leaves the entry and both indexes as they are.
C9_QuestionSequencing ==
  [][/\ QuestionSequencing
     /\ lastEvent'.op = "replyToQuestion" =>
          IF lastEvent'.action = "ok"
          THEN /\ lastEvent'.requestId \notin DOMAIN pendingQuestions'
               /\ \A c \in DOMAIN pendingQuestionsByChat' :
                    pendingQuestionsByChat'[c] # lastEvent'.requestId
          ELSE UNCHANGED <<pendingQuestions, pendingQuestionsByChat>>
    ]_vars

\* C9 witness: Submit has just been pressed at the second of two
\* sub-questions, after an option of the first was pressed and an option of
\* the second toggled, and replyToQuestion was called with both answer lists
\* in order; the entry is still there, at index 1, until the call returns.
C9_Witness ==
  /\ lastEvent.op = "callback_query"
  /\ calls = {ApiCall("replyToQuestion", lastEvent.requestId,
                      << <<LabelA>>, <<LabelB>> >>)}
  /\ lastEvent.requestId \in DOMAIN pendingQuestions
  /\ pendingQuestions[lastEvent.requestId].currentIndex = 1

\* C9 as stated: the same sequencing, and once replyToQuestion has been
\* called for the last answer the entry is destroyed, however the call ends.
C9_Original ==
  [][/\ QuestionSequencing
     /\ lastEvent'.op = "replyToQuestion" =>
          lastEvent'.requestId \notin DOMAIN pendingQuestions'
    ]_vars

\* The set `selected' with the membership of `label' flipped.
Flip(selected, label) ==
  IF label \in selected THEN selected \ {label} ELSE selected \cup {label}

\* The step handles a press of an option of the multi-select sub-question an
\* open question is at.
Toggling ==
  /\ PressesButton("option")
  /\ CurrentQuestion(pendingQuestions[lastEvent'.requestId]).multiple
  /\ lastEvent'.optionIndex <
       Len(CurrentQuestion(pendingQuestions[lastEvent'.requestId]).options)

\* A toggling step leaves the index, the answers of the other sub-questions
\* and both indexes of the registry alone and calls no backend; Next/Submit
\* on a multi-select sub-question with an empty answer list sends the "select
\* at least one" notice, calls no backend and changes nothing, and with a
\* non-empty list it hands exactly that list on (to the next sub-question,
\* or to replyToQuestion at the last one).
ToggleAndNext ==
  /\ Toggling =>
       LET r == lastEvent'.requestId
           pending == pendingQuestions[r]
       IN /\ r \in DOMAIN pendingQuestions'
          /\ pendingQuestions'[r].currentIndex = pending.currentIndex
          /\ \A i \in 1..Len(pending.answers) :
               i # pending.currentIndex + 1 =>
                 pendingQuestions'[r].answers[i] = pending.answers[i]
          /\ calls' = {}
          /\ UNCHANGED <<pendingQuestionsByChat, handlers>>
  /\ (PressesButton("next")
      /\ CurrentQuestion(pendingQuestions[lastEvent'.requestId]).multiple) =>
       LET r == lastEvent'.requestId
           pending == pendingQuestions[r]
           custom == CurrentQuestion(pending).custom
       IN IF Len(CurrentAnswer(pending)) = 0
          THEN /\ sent' = {Message(lastEvent'.chatId, msgCount',
                             IF ~custom
                             THEN "Select at least one option."
                             ELSE "Select at least one option or type an answer.")}
               /\ calls' = {}
               /\ UNCHANGED <<pendingQuestions, pendingQuestionsByChat, handlers>>
          ELSE /\ pendingQuestions'[r].answers = pending.answers
               /\ IF pending.currentIndex < Len(pending.questions) - 1
                  THEN /\ pendingQuestions'[r].currentIndex = pending.currentIndex + 1
                       /\ calls' = {}
                  ELSE calls' = {ApiCall("replyToQuestion", r, pending.answers)}

\* C10 (amended): on a multi-select sub-question, pressing an option makes
\* the current answer list the option labels it held with that option's
\* label flipped -- an entry that is no option label (a typed answer whose
\* submit failed or is still pending) is dropped -- without advancing the
\* index or changing another sub-question's answers, and pressing it again
\* restores the previous set of selected option labels; Next/Submit submits
\* exactly the current answer list, and with an empty list it sends the
\* "select at least one" notice, calls no backend and does not advance.
C10_MultiSelect ==
  [][/\ ToggleAndNext
     /\ Toggling =>
          LET r == lastEvent'.requestId
              pending == pendingQuestions[r]
              question == CurrentQuestion(pending)
              label == question.options[lastEvent'.optionIndex + 1]
              selected == Entries(CurrentAnswer(pending)) \cap OptionLabels(question)
              next == CurrentAnswer(pendingQuestions'[r])
          IN /\ Entries(next) = Flip(selected, label)
             /\ Cardinality(Entries(next)) = Len(next)
             /\ Entries(toggleOption(question, next, label)) = selected
    ]_vars

\* C10 witness: Submit has just been pressed on a multi-select sub-question
\* whose answer list holds both labels, selected by two toggles, and
\* replyToQuestion was called with that list.
C10_Witness ==
  /\ lastEvent.op = "callback_query"
  /\ lastEvent.action = "next"
  /\ \E call \in calls :
       /\ call.op = "replyToQuestion"
       /\ call.id = lastEvent.requestId
       /\ call.answers = << <<LabelB, LabelA>> >>

\* C10 as stated: pressing an option flips that option's label in the
\* current answer list, whatever the list holds, and pressing it again
\* restores the previous set of entries.
C10_Original ==
  [][/\ ToggleAndNext
     /\ Toggling =>
          LET r == lastEvent'.requestId
              pending == pendingQuestions[r]
              question == CurrentQuestion(pending)
              label == question.options[lastEvent'.optionIndex + 1]
              selected == Entries(CurrentAnswer(pending))
              next == CurrentAnswer(pendingQuestions'[r])
          IN /\ Entries(next) = Flip(selected, label)
             /\ Entries(toggleOption(question, next, label)) = selected
    ]_vars

\* ------------------------------------------------------------- permissions
\* The step is the event loop's dispatch of a permission.asked event.
PermissionEvent == lastEvent'.op = "permission.asked"

\* The step is the settling of the sendMessage call of onPermissionAsked.
PermissionSendSettles ==
  evPermission # NoPermission /\ lastEvent'.op = "sendMessage"

\* What a permission.asked event does at once: for a session the Ownership
\* Index maps to chat c exactly one permission message goes out, to c, and
\* the request waits for Telegram bound to c; for a session without an owner
\* nothing is sent and nothing waits.  Nothing is registered before Telegram
\* has answered, and only the settling of that send registers anything.
PermissionRouting ==
  /\ PermissionEvent =>
       LET owner == getSessionOwner(store, lastEvent'.sessionId)
       IN /\ UNCHANGED pendingPermissions
          /\ IF owner = NoOwner
             THEN sent' = {} /\ evPermission' = NoPermission
             ELSE /\ sent' = {Message(owner.chatId, 0, "permission")}
                  /\ evPermission' =
                       PendingPermission(owner.chatId, 0, lastEvent'.requestId)
  /\ (DOMAIN pendingPermissions' \ DOMAIN pendingPermissions # {})
       => PermissionSendSettles
  /\ (sent' # {} /\ \E m \in sent' : m.kind = "permission") => PermissionEvent

\* The entry the settled send registers: one entry, under the request id,
\* bound to the owner's chat; every other entry stays as it is.
PermissionRegistered ==
  /\ DOMAIN pendingPermissions' = DOMAIN pendingPermissions \cup {evPermission.requestId}
  /\ evPermission.requestId \notin DOMAIN pendingPermissions
  /\ pendingPermissions'[evPermission.requestId].chatId = evPermission.chatId
  /\ \A r \in DOMAIN pendingPermissions :
       pendingPermissions'[r] = pendingPermissions[r]

\* C11 (amended): a permission.asked event whose session id the Ownership
\* Index maps to conversation c causes exactly one permission message to be
\* sent, to c and to no other conversation, and, once Telegram has accepted
\* that message, registers one Pending Permission bound to c (a failed send
\* registers nothing); an event whose session id has no owner sends nothing
\* and registers nothing.
C11_PermissionRouted ==
  [][/\ PermissionRouting
     /\ PermissionSendSettles =>
          IF lastEvent'.action = "ok" THEN PermissionRegistered
          ELSE UNCHANGED pendingPermissions
    ]_vars

\* C11 witness: the permission message for a request about the session of a
\* chat other than the first has been accepted by Telegram, and the request
\* is registered for that chat.
C11_Witness ==
  /\ lastEvent.op = "sendMessage" /\ lastEvent.action = "ok"
  /\ lastEvent.requestId \in DOMAIN pendingPermissions
  /\ pendingPermissions[lastEvent.requestId].chatId # FirstChat
  /\ \E sid \in 1..MaxSessions :
       getSessionOwner(store, sid).chatId =
         pendingPermissions[lastEvent.requestId].chatId

\* C11 as stated: every permission.asked event for an owned session
\* registers one Pending Permission bound to the owner, however the send
\* of its message ends.
C11_Original ==
  [][/\ PermissionRouting
     /\ PermissionSendSettles => PermissionRegistered
    ]_vars

\* ---------------------------------------------------------------- splitting
\* ceil(n / d) for n >= 0 and d >= 1.
Ceil(n, d) == (n + d - 1) \div d

\* The chunks returned for the text: joined they are the text, and none is
\* longer than the limit.
ChunksCover ==
  /\ join(split.chunks) = split.text
  /\ \A i \in 1..Len(split.chunks) : Len(split.chunks[i]) <= split.limit

\* C12 (amended): for every string of length N and every limit >= 1,
\* splitTelegramMessage(text, limit) returns chunks whose concatenation
\* equals the input exactly, each of length <= limit, and whose count is
\* ceil(N/limit) when N >= 1, with N = limit giving exactly one chunk; the
\* empty string gives one empty chunk, not none.
C12_SplitCovers ==
  split.done =>
    /\ ChunksCover
    /\ Len(split.chunks) = IF Len(split.text) = 0 THEN 1
                           ELSE Ceil(Len(split.text), split.limit)
    /\ Len(split.text) = split.limit => split.chunks = <<split.text>>

\* C12 witness: a text has been split into three chunks, the last of them
\* shorter than the limit.
C12_Witness ==
  /\ split.done
  /\ Len(split.chunks) = 3
  /\ split.limit > 1
  /\ Len(split.chunks[3]) < split.limit

\* C12 as stated: the count is ceil(N/limit) for every N.
C12_Original ==
  split.done =>
    /\ ChunksCover
    /\ Len(split.chunks) = Ceil(Len(split.text), split.limit)
    /\ Len(split.text) = split.limit => split.chunks = <<split.text>>

\* ------------------------------------------------------- guard, continued
\* C13: setSessionId(C, token, sid) records sid on C's entry only when token
\* is the token of the live entry for C, and changes nothing else of the
\* guard; when C has no entry, or its entry belongs to another (later)
\* tryStart, the call changes nothing, so the session id of a newer prompt
\* is never set by an older prompt's task.
C13_SetSessionIdGuarded ==
  [][lastCall'.op = "setSessionId" =>
       LET c == lastCall'.chatId
           k == lastCall'.abortController
           sid == lastCall'.ret.sessionId
       IN IF LiveCtl(guard, c, k)
          THEN /\ DOMAIN guard'.inFlight = DOMAIN guard.inFlight
               /\ guard'.inFlight[c] = [guard.inFlight[c] EXCEPT !.sessionId = sid]
               /\ \A d \in DOMAIN guard.inFlight \ {c} :
                    guard'.inFlight[d] = guard.inFlight[d]
               /\ guard'.timers = guard.timers
               /\ guard'.aborted = guard.aborted
               /\ guard'.nextCtl = guard.nextCtl
          ELSE guard' = guard
    ]_vars

\* C13 witness: setSessionId was just called with the token of an earlier
\* prompt of a chat whose live entry belongs to a later tryStart, and that
\* entry still has no session id.
C13_Witness ==
  /\ lastCall.op = "setSessionId"
  /\ lastCall.chatId \in DOMAIN guard.inFlight
  /\ guard.inFlight[lastCall.chatId].abortController > lastCall.abortController
  /\ guard.inFlight[lastCall.chatId].sessionId = 0
  /\ lastCall.ret.sessionId # 0

\* ------------------------------------------------- timeout of a prompt
\* The entries whose timer fires in this step (removed by the timer).
FiredTimeouts == {e \in ended' \ ended : e.by = "timeout"}

\* C14: when an entry's timeout fires, onTimeout is invoked with that
\* entry's reply-affinity and the session id recorded on it at fire time,
\* and the timeout handler uses exactly those values: it marks the prompt
\* timed out and, in a chat without an open question, at once addresses its
\* "session not ready" reply to that message when no session id was
\* recorded and otherwise asks the backend to abort that session.
C14_TimeoutArgument ==
  [][\A e \in FiredTimeouts :
       LET entry == guard.inFlight[e.chatId]
       IN /\ \E m \in DOMAIN tasks' :
               /\ tasks'[m].abortController = e.abortController
               /\ tasks'[m].timedOut
          /\ IF entry.sessionId = 0
             THEN \E msg \in sent' : /\ msg.chatId = e.chatId
                                     /\ msg.replyTo = entry.replyToMessageId
             ELSE ApiCall("abortSession", entry.sessionId, << >>) \in calls'
    ]_vars

\* C15: each fired timeout sends exactly one timeout message, addressed to
\* the timed-out message: when no session id was recorded it is the
\* "session not ready" message, sent at once without a backend abort call;
\* otherwise the backend abort is called once for the recorded session
\* before anything is sent.  Nothing the timeout handling throws
\* propagates: the bridge keeps running.
C15_TimeoutMessage ==
  [][\A e \in FiredTimeouts :
       LET entry == guard.inFlight[e.chatId]
       IN /\ alive'
          /\ IF entry.sessionId = 0
             THEN /\ sent' = {Message(e.chatId, entry.replyToMessageId,
                                      "timeout: session not ready")}
                  /\ calls' = {}
             ELSE /\ sent' = {}
                  /\ calls' = {ApiCall("abortSession", entry.sessionId, << >>)}
    ]_vars

\* ------------------------------------------------------------------ /abort
\* The step is the part of an /abort command that aborts the prompt: the
\* command itself in a chat without an open question, or its continuation
\* once the open question has been cleared.
AbortsPrompt ==
  \/ /\ lastEvent'.op = "abort"
     /\ getPendingQuestionForChat(lastEvent'.chatId) = NoPending
  \/ lastEvent'.op = "clearPendingQuestion"

\* C16: when /abort is issued while a prompt is in flight (the Guard holds
\* an entry for the chat), the entry is removed and its token cancelled, one
\* "Aborting..." acknowledgment is sent addressed to the original message,
\* and a backend abort is requested exactly when a session id had been
\* recorded on the entry; when nothing is in flight it replies that there is
\* nothing to abort, requests no backend abort and leaves the Guard unchanged.
C16_AbortCommand ==
  [][AbortsPrompt =>
       LET c == lastEvent'.chatId
       IN IF c \in DOMAIN guard.inFlight
          THEN LET entry == guard.inFlight[c]
               IN /\ c \notin DOMAIN guard'.inFlight
                  /\ entry.abortController \in guard'.aborted
                  /\ \A t \in guard'.timers : t.abortController # entry.abortController
                  /\ sent' = {Message(c, entry.replyToMessageId, "aborting")}
                  /\ calls' = IF entry.sessionId # 0
                              THEN {ApiCall("abortSession", entry.sessionId, << >>)}
                              ELSE {}
          ELSE /\ sent' = {Message(c, 0, "noInFlight")}
               /\ calls' = {}
               /\ guard' = guard
    ]_vars

\* C16 witness: /abort has just aborted a prompt on whose entry a session id
\* was recorded: the acknowledgment is addressed to the prompt's message and
\* the backend abort of that session is requested.
C16_Witness ==
  /\ lastEvent.op = "abort"
  /\ \E m \in DOMAIN tasks, sid \in 1..MaxSessions :
       /\ sent = {Message(lastEvent.chatId, m, "aborting")}
       /\ calls = {ApiCall("abortSession", sid, << >>)}
       /\ tasks[m].abortController \in guard.aborted
       /\ lastEvent.chatId \notin DOMAIN guard.inFlight

\* The prompt of message m was aborted by /abort: its entry was removed by
\* promptGuard.abort.
AbortedByUser(m) ==
  [chatId |-> tasks[m].chatId, abortController |-> tasks[m].abortController,
   by |-> "abort"] \in ended

\* C17: after an explicit /abort of an in-flight prompt, no success reply
\* and no error message produced by that prompt's own backend call is sent,
\* whether the call later resolves successfully or fails.
C17_SilentAfterAbort ==
  \A m \in DOMAIN tasks :
    AbortedByUser(m) =>
      /\ Message(tasks[m].chatId, m, "reply") \notin sent
      /\ Message(tasks[m].chatId, m, "error") \notin sent


\* C18: after any sequence of setSessionId, clearSession and clearAll the two
\* directions of the store agree: getSessionId(c, p) is s exactly when
\* getSessionOwner(s) is (c, p).
C18_IndexAgreement ==
  \A chatId \in Chats, projectDir \in ProjectDirs, sessionId \in StoreSessionIds :
    getSessionId(store, chatId, projectDir) = sessionId
      <=> getSessionOwner(store, sessionId)
            = [chatId |-> chatId, projectDir |-> projectDir]

\* C18, second sentence: setSessionId(c, p, new) removes the owner entry of
\* the old id of (c, p); clearSession(c, p) leaves (c, p) unmapped, removes
\* the owner entry of its id, keeps every other pair, and returns whether
\* (c, p) was mapped; clearAll empties both directions.
C18_StepEffects ==
  [][LET r == returned'
         key == buildSessionKey(r.owner.chatId, r.owner.projectDir)
         old == getSessionId(store, r.owner.chatId, r.owner.projectDir)
     IN /\ r.op = "setSessionId" =>
             /\ getSessionId(store', r.owner.chatId, r.owner.projectDir)
                  = r.sessionId
             /\ old # 0 /\ old # r.sessionId
                  => getSessionOwner(store', old) = NoOwner
        /\ r.op = "clearSession" =>
             /\ r.existed = (old # 0)
             /\ getSessionId(store', r.owner.chatId, r.owner.projectDir) = 0
             /\ old # 0 => getSessionOwner(store', old) = NoOwner
             /\ \A k \in DOMAIN store.sessions \ {key} :
                  k \in DOMAIN store'.sessions
                    /\ store'.sessions[k] = store.sessions[k]
        /\ r.op = "clearAll" =>
             store'.sessions = << >> /\ store'.owners = << >>]_vars


\* C19: a text message that arrives while the open question of its chat is at
\* a sub-question that takes no typed answer is answered with the one notice
\* "Please choose one of the options for this question." and changes nothing:
\* no answer is recorded, the index stays, the question stays open, no
\* backend call (replyToQuestion, promptFromChat or any other) is made, and
\* the guard and the prompt tasks are left alone.
C19_TypedAnswerRefused ==
  [][(/\ HandlesUpdate("text")
      /\ getPendingQuestionForChat(lastEvent'.chatId) # NoPending
      /\ getPendingQuestionForChat(lastEvent'.chatId).currentIndex
           < Len(getPendingQuestionForChat(lastEvent'.chatId).questions)
      /\ ~CurrentQuestion(getPendingQuestionForChat(lastEvent'.chatId)).custom)
     => /\ sent' = {Message(lastEvent'.chatId, msgCount',
                   "Please choose one of the options for this question.")}
        /\ calls' = {}
        /\ UNCHANGED <<pendingQuestions, pendingQuestionsByChat, handlers>>
        /\ UNCHANGED <<guard, ended, tasks, store, nextSid>>
    ]_vars

\* C19 witness: the user has just typed a non-empty text while the open
\* question of the chat is at its second sub-question, which takes no typed
\* answer; the notice is the one message sent.
C19_Witness ==
  /\ lastEvent.op = "text"
  /\ trim(lastEvent.text) # << >>
  /\ getPendingQuestionForChat(lastEvent.chatId) # NoPending
  /\ getPendingQuestionForChat(lastEvent.chatId).currentIndex = 1
  /\ ~CurrentQuestion(getPendingQuestionForChat(lastEvent.chatId)).custom
  /\ sent = {Message(lastEvent.chatId, msgCount,
                     "Please choose one of the options for this question.")}


\* The step is the one in which rejectQuestion of cancel handler h settles.
CancelSettled(h) ==
  /\ BagIn(h, handlers) /\ h.kind = "cancel"
  /\ handlers' = handlers (-) SetToBag({h})
  /\ lastEvent'.op = "rejectQuestion"
  /\ lastEvent'.requestId = h.requestId

\* C20: a press of Cancel on the open question of the chat calls
\* rejectQuestion for its request id and nothing else; when that call
\* settles, with or without an error, the request is in neither index, and
\* the chat whose open question it was has none; a text message to a chat
\* without an open question is handled as a prompt (a task is started or the
\* "previous message" notice is sent) and leaves the question indexes alone.
C20_CancelRemovesQuestion ==
  [][/\ PressesButton("cancel") =>
          /\ calls' = {ApiCall("rejectQuestion", lastEvent'.requestId, << >>)}
          /\ \E h \in BagToSet(handlers') :
               h.kind = "cancel" /\ h.requestId = lastEvent'.requestId
     /\ \A h \in BagToSet(handlers) :
          CancelSettled(h) =>
            /\ h.requestId \notin DOMAIN pendingQuestions'
            /\ \A c \in DOMAIN pendingQuestionsByChat' :
                 pendingQuestionsByChat'[c] # h.requestId
            /\ getPendingQuestionForChat(h.chatId).requestId = h.requestId
                 => h.chatId \notin DOMAIN pendingQuestionsByChat'
            /\ calls' = {}
     /\ (HandlesUpdate("text")
         /\ getPendingQuestionForChat(lastEvent'.chatId) = NoPending)
        => /\ \/ msgCount' \in DOMAIN tasks' \ DOMAIN tasks
              \/ sent' = {Message(lastEvent'.chatId, msgCount', "blocked")}
           /\ UNCHANGED <<pendingQuestions, pendingQuestionsByChat, handlers>>
    ]_vars

\* C20 witness: rejectQuestion of a Cancel press has just failed; the
\* question is gone from both indexes and its chat has no open question.
C20_Witness ==
  /\ lastEvent.op = "rejectQuestion"
  /\ lastEvent.action = "failed"
  /\ lastEvent.requestId \notin DOMAIN pendingQuestions
  /\ getPendingQuestionForChat(lastEvent.chatId) = NoPending
  /\ Message(lastEvent.chatId, lastEvent.requestId, "Status: Cancelled") \in sent


\* C21: an entry of pendingPermissions disappears only in the step in which
\* a replyToPermission call for its request has succeeded; every other step
\* (a prompt settling, the prompt timer, /abort, every question operation)
\* leaves every entry as it is, and the only other change is the entry a
\* delivered permission message adds.
C21_PermissionsOutliveRest ==
  [][/\ \A r \in DOMAIN pendingPermissions :
          IF r \in DOMAIN pendingPermissions'
          THEN pendingPermissions'[r] = pendingPermissions[r]
          ELSE /\ lastEvent'.op = "replyToPermission"
               /\ lastEvent'.action = "ok"
               /\ lastEvent'.requestId = r
               /\ \E h \in BagToSet(handlers) :
                    /\ h.kind = "permission" /\ h.requestId = r
                    /\ handlers' = handlers (-) SetToBag({h})
     /\ \A r \in DOMAIN pendingPermissions' \ DOMAIN pendingPermissions :
          evPermission.requestId = r /\ evPermission' = NoPermission
     /\ (\/ guard' # guard \/ tasks' # tasks \/ elapsed' # elapsed
         \/ pendingQuestions' # pendingQuestions
         \/ pendingQuestionsByChat' # pendingQuestionsByChat
         \/ lastEvent'.op \in {"abort", "text", "question.asked",
                                "replyToQuestion", "rejectQuestion",
                                "clearPendingQuestion"})
        => pendingPermissions' = pendingPermissions
    ]_vars

\* C21 witness: two permission requests are pending at once, for different
\* chats, and the /abort just handled removed the guard entry of one of
\* these chats and left both.
C21_Witness ==
  /\ lastEvent.op = "abort"
  /\ \E e \in ended : e.by = "abort" /\ e.chatId = lastEvent.chatId
  /\ ~isInFlight(guard, lastEvent.chatId)
  /\ \E r1 \in DOMAIN pendingPermissions, r2 \in DOMAIN pendingPermissions :
       /\ pendingPermissions[r1].chatId # pendingPermissions[r2].chatId
       /\ pendingPermissions[r1].chatId = lastEvent.chatId


\* ---------------------------------------------------------------- outcomes
\* The step just taken handed the user an outcome of the prompt of message
\* m: its reply, its error message or its timeout message.
Reported(m) ==
  /\ m \in DOMAIN tasks
  /\ \E msg \in sent :
       /\ msg.chatId = tasks[m].chatId /\ msg.replyTo = m
       /\ msg.kind \notin {"blocked", "aborting", "noInFlight"}

\* C22: every accepted prompt that the user does not abort eventually
\* produces a user-visible outcome (a reply, an error message or a timeout
\* message), also when its backend call never returns.
C22_EveryPromptReported ==
  \A m \in 1..MaxUpdates :
    (m \in DOMAIN tasks)
      ~> (Reported(m) \/ (m \in DOMAIN tasks /\ AbortedByUser(m)))


\* The step runs the finally block of the task of message m.
Finishes(m) ==
  m \in DOMAIN tasks /\ tasks[m].pc # "done" /\ tasks'[m].pc = "done"

\* C23: the finish call in the finally block of a task whose token is
\* already cancelled (by its timeout or by /abort) leaves the entry and the
\* timer of a later prompt of the same chat in place.
C23_StaleFinishHarmless ==
  [][\A m \in DOMAIN tasks :
       (/\ Finishes(m)
        /\ tasks[m].abortController \in guard.aborted
        /\ tasks[m].chatId \in DOMAIN guard.inFlight
        /\ guard.inFlight[tasks[m].chatId].abortController
             # tasks[m].abortController)
       => /\ tasks[m].chatId \in DOMAIN guard'.inFlight
          /\ guard'.inFlight[tasks[m].chatId] = guard.inFlight[tasks[m].chatId]
          /\ guard'.timers = guard.timers
    ]_vars


\* The guard holds the entry that tryStart made for controller k.
EntryOf(k) ==
  \E c \in DOMAIN guard.inFlight : guard.inFlight[c].abortController = k

\* C24: the entry of every accepted prompt is eventually removed, whether or
\* not the download, session.create or promptFromChat ever returns: as long
\* as an entry exists its own timer is scheduled, and every entry goes (or
\* the process, and with it the guard, has ended).
C24_EntryEventuallyRemoved ==
  /\ [](\A c \in DOMAIN guard.inFlight :
          \E t \in guard.timers :
            /\ t.chatId = c
            /\ t.timeoutId = guard.inFlight[c].timeoutId
            /\ t.abortController = guard.inFlight[c].abortController)
  /\ \A k \in 1..MaxCtl : EntryOf(k) ~> (~EntryOf(k) \/ ~alive)

\* C24 witness: the timer has removed the entry of a prompt whose backend
\* call has not returned, and the chat has no entry.
C24_Witness ==
  \E m \in DOMAIN tasks :
    /\ tasks[m].pc \in {"input", "ensure", "prompt"}
    /\ [chatId |-> tasks[m].chatId,
        abortController |-> tasks[m].abortController,
        by |-> "timeout"] \in ended
    /\ ~isInFlight(guard, tasks[m].chatId)


\* C25: a prompt task calls promptGuard.finish(chatId) once, as the last
\* thing it does: the step in which a task returns applies finish to the
\* guard, a task that has returned never runs again, a step in which a task
\* goes on to its next await does not release the guard, and an entry is
\* only ever released by finish in a step in which a task of its chat
\* returns.
C25_FinishOnce ==
  [][/\ \A m \in DOMAIN tasks :
          /\ Finishes(m) => guard' = finish(guard, tasks[m].chatId)
          /\ tasks[m].pc = "done" => tasks'[m] = tasks[m]
          /\ (tasks'[m].pc # tasks[m].pc /\ ~Finishes(m))
               => /\ tasks'[m].pc \in {"ensure", "prompt", "send"}
                  /\ DOMAIN guard'.inFlight = DOMAIN guard.inFlight
                  /\ guard'.timers = guard.timers
     /\ \A e \in ended' \ ended :
          e.by = "finish" =>
            \E m \in DOMAIN tasks : Finishes(m) /\ tasks[m].chatId = e.chatId
    ]_vars

\* C25 witness: a task has returned through its finally block in a chat
\* that never got a session (its download or its session.create threw), and
\* its own entry was released by finish.
C25_Witness ==
  \E m \in DOMAIN tasks :
    /\ tasks[m].pc = "done"
    /\ getSessionId(store, tasks[m].chatId, ProjectDir) = 0
    /\ [chatId |-> tasks[m].chatId,
        abortController |-> tasks[m].abortController,
        by |-> "finish"] \in ended
    /\ ~isInFlight(guard, tasks[m].chatId)


\* The messages among S that tell the user an outcome of the prompt of
\* message m of chat c: a reply, an error message or a timeout message.
OutcomesIn(S, c, m) ==
  {msg \in S : /\ msg.chatId = c /\ msg.replyTo = m
               /\ msg.kind \notin {"blocked", "aborting", "noInFlight"}}

C27_AbandonedSilently ==
  [][\A m \in DOMAIN tasks :
       (/\ tasks[m].pc \in {"input", "ensure"}
        /\ tasks[m].abortController \in guard.aborted
        /\ tasks'[m].pc # tasks[m].pc)
       => /\ tasks'[m].pc = "done"
          /\ ApiCall("promptFromChat", m, << >>) \notin calls'
          /\ OutcomesIn(sent', tasks[m].chatId, m) = {}
    ]_vars

\* C27 witness: a task has returned without a message in a step of its own
\* after its token was cancelled by the timer while session.create was
\* pending; the session that came back is stored.
C27_Witness ==
  /\ alive /\ sent = {} /\ calls = {}
  /\ \E m \in DOMAIN tasks :
       /\ tasks[m].pc = "done"
       /\ [chatId |-> tasks[m].chatId,
           abortController |-> tasks[m].abortController,
           by |-> "timeout"] \in ended
       /\ getSessionId(store, tasks[m].chatId, ProjectDir) = nextSid - 1
       /\ nextSid = 2
       /\ DOMAIN tasks = {m}
       /\ msgCount = m


\* C28: an /abort in a chat with an open question takes the question out of
\* both indexes and calls rejectQuestion for it before it touches the guard,
\* calls abortSession or sends its reply; and once the guard entry of a chat
\* has been removed by /abort or by its timeout, the chat has no open
\* question.
C28_QuestionClearedFirst ==
  [][/\ (/\ lastEvent'.op = "abort"
         /\ msgCount' = msgCount + 1
         /\ getPendingQuestionForChat(lastEvent'.chatId) # NoPending)
        => LET pending == getPendingQuestionForChat(lastEvent'.chatId)
           IN /\ pending.requestId \notin DOMAIN pendingQuestions'
              /\ pending.chatId \notin DOMAIN pendingQuestionsByChat'
              /\ calls' = {ApiCall("rejectQuestion", pending.requestId, << >>)}
              /\ sent' = {}
              /\ guard' = guard
     /\ \A e \in ended' \ ended :
          e.by \in {"abort", "timeout"}
            => e.chatId \notin DOMAIN pendingQuestionsByChat'
    ]_vars


\* C29: at most one session is created for a chat and its project: whenever
\* a session.create call of a task returns a new session, the store holds
\* no session for the task's chat and project yet.
C29_OneSessionPerPair ==
  [][\A m \in DOMAIN tasks :
       (/\ tasks[m].pc = "ensure" /\ tasks'[m].pc # "ensure"
        /\ nextSid' = nextSid + 1)
       => getSessionId(store, tasks[m].chatId, ProjectDir) = 0
    ]_vars

\* C30: the automatic pin of a prompt's success never overwrites a pinned
\* model: whenever a step in which promptFromChat returns to a task changes
\* the model pinned for the task's chat, no model was pinned for the chat
\* before the step.
C30_PinNeverOverwrites ==
  [][\A m \in DOMAIN tasks :
       (/\ tasks[m].pc = "prompt" /\ tasks'[m].pc # "prompt"
        /\ getModel(chatModels', tasks[m].chatId, ProjectDir)
             # getModel(chatModels, tasks[m].chatId, ProjectDir))
       => getModel(chatModels, tasks[m].chatId, ProjectDir) = NoModel
    ]_vars

\* C31: the backend receives at most one terminal call for a question
\* request: no step calls replyToQuestion or rejectQuestion for a request
\* while a handler that has made such a call for the same request is still
\* waiting for it.
TerminalOps == {"replyToQuestion", "rejectQuestion"}

C31_OneTerminalCall ==
  [][\A call \in calls' :
       call.op \in TerminalOps
       => ~\E h \in BagToSet(handlers) :
             /\ h.kind \in {"submit", "cancel", "abort"}
             /\ h.requestId = call.id
    ]_vars

\* C32: at most one decision is forwarded for a permission request: no step
\* calls replyToPermission for a request while a handler that has forwarded
\* a decision for the same request is still waiting for the backend.
C32_OneDecisionForwarded ==
  [][\A call \in calls' :
       call.op = "replyToPermission"
       => ~\E h \in BagToSet(handlers) :
             h.kind = "permission" /\ h.requestId = call.id
    ]_vars

\* C33: whenever replyToQuestion is called the submitted list holds one
\* non-empty answer list for every sub-question of the request, and the
\* handler of a button press or of a typed answer never fails with
\* 'missing answers' (the only failure it reports before any call settles).
MissingAnswersReports ==
  {"Failed to send answer.", "Failed to send answer to OpenCode."}

C33_AnswersComplete ==
  [][/\ \A call \in calls' :
          call.op = "replyToQuestion"
          => /\ call.id \in DOMAIN pendingQuestions
             /\ Len(call.answers) = Len(pendingQuestions[call.id].questions)
             /\ \A i \in 1..Len(call.answers) : Len(call.answers[i]) > 0
             /\ call.answers = pendingQuestions'[call.id].answers
     /\ lastEvent'.op \in {"text", "callback_query"}
        => \A msg \in sent' : msg.kind \notin MissingAnswersReports
    ]_vars

\* C33 witness: the answers of a request with two sub-questions are being
\* submitted, the second one answered by a Submit press after a toggle.
C33_Witness ==
  \E call \in calls :
    /\ call.op = "replyToQuestion" /\ Len(call.answers) = 2
    /\ lastEvent.op = "callback_query" /\ lastEvent.action = "next"

\* C34: an option or Next press answers only the sub-question its keyboard
\* showed: whenever the handler of such a press changes the question
\* registry or calls the backend, the sub-question shown on the tapped
\* keyboard is the current one of the request.
C34_PressAnswersShown ==
  [][LET r == lastEvent'.requestId
     IN (/\ lastEvent'.op = "callback_query"
         /\ lastEvent'.action \in {"option", "next"}
         /\ r \in DOMAIN pendingQuestions
         /\ pendingQuestions' # pendingQuestions \/ calls' # {})
        => tapped' = pendingQuestions[r].currentIndex
    ]_vars

\* C35: the event loop handles one event at a time: while a handler waits
\* the loop is suspended at its promise, a handler is called only when the
\* loop was reading and no handler was waiting, and an event of another type
\* calls no handler and leaves the loop reading.
HandlerWaits == evHandler # NoPending \/ evPermission # NoPermission

C35_OneEventAtATime ==
  /\ [](HandlerWaits => loop.pc = "handler")
  /\ [][/\ "handler" \in loop'.did
           => loop.pc = "read" /\ ~HandlerWaits
        /\ (lastEvent'.op = "other" /\ ~loop.aborted)
           => /\ loop'.pc = "read" /\ loop'.did = {}
              /\ UNCHANGED <<qregs, mvars>> /\ sent' = {} /\ calls' = {}
       ]_vars

\* C35 witness: the handler of a second event has been called after the
\* handler of the first one had settled.
C35_Witness ==
  /\ "handler" \in loop.did /\ loop.pc = "handler"
  /\ pendingPermissions # << >> \/ pendingQuestions # << >>

\* C36: while it has not been stopped the loop survives every failure: a
\* failed connection attempt or read reports the error and starts the
\* backoff, the backoff is followed by a new connection attempt, and run
\* has returned only after stop().
StreamFailed ==
  /\ lastEvent.op \in {"global.event", "stream"} /\ lastEvent.action = "failed"

C36_ReconnectsAfterFailure ==
  /\ [](loop.pc = "done" => loop.aborted)
  /\ [][(/\ lastEvent'.op \in {"global.event", "stream"}
         /\ lastEvent'.action = "failed" /\ ~loop.aborted)
        => loop'.pc = "sleep" /\ loop'.did = {"onError"}]_vars
  /\ [][(loop.pc = "sleep" /\ loop'.pc # "sleep" /\ ~loop.aborted)
        => loop'.pc = "connect" /\ "connect" \in loop'.did]_vars
  /\ ((loop.pc = "sleep") ~> (loop.pc = "connect" \/ loop.aborted))

\* C36 witness: after a connection that delivered an event, a later
\* connection attempt has failed, the error has been reported and the loop
\* is in its backoff.
C36_Witness ==
  /\ StreamFailed /\ loop.pc = "sleep" /\ ~loop.aborted
  /\ lastEvent.op = "global.event" /\ nextReq > 1

\* C37: after stop() the loop opens no connection and calls no handler,
\* whatever it was waiting for when stop() was called, and run returns.
C37_StopEndsLoop ==
  /\ [][loop.aborted
        => /\ "connect" \notin loop'.did /\ "handler" \notin loop'.did
           /\ loop'.pc \notin {"connect", "handler", "sleep"}
              \/ loop'.pc = loop.pc]_vars
  /\ (loop.aborted ~> loop.pc = "done")

\* C37 witness: a permission request has been handled, stop() has been
\* called, and run has returned at the next event without calling a handler.
C37_Witness ==
  /\ loop.pc = "done" /\ loop.aborted
  /\ lastEvent.action = "dropped"
  /\ pendingPermissions # << >>

\* C38: when the stream ends without an error and the loop has not been
\* stopped, the loop waits the backoff before it reconnects.
C38_BackoffAfterStreamEnd ==
  [][(/\ lastEvent'.op = "stream" /\ lastEvent'.action = "ended"
      /\ ~loop.aborted)
     => loop'.pc = "sleep"]_vars

\* C39: sendReply sends the chunks of its text in order, each at most once,
\* and only the first with the reply-affinity; once a sendMessage has failed
\* nothing more is sent, and the task releases the guard in the step in
\* which sendReply returns, failed or not.
InOrder(m) ==
  LET r == replies[m]
  IN /\ Len(r.log) = r.index + 1 /\ Len(r.log) <= Len(r.chunks)
     /\ \A i \in 1..Len(r.log) :
          /\ r.log[i].text = r.chunks[i]
          /\ r.log[i].chatId = tasks[m].chatId
          /\ r.log[i].replyTo = IF i = 1 THEN m ELSE 0
     /\ r.ended = "sent" => Len(r.log) = Len(r.chunks)

C39_ChunksInOrder ==
  /\ [](\A m \in DOMAIN replies : InOrder(m))
  /\ [][\A m \in DOMAIN replies :
          /\ replies[m].ended # "" => replies'[m] = replies[m]
          /\ (replies[m].ended = "" /\ replies'[m].ended # "")
             => /\ Finishes(m)
                /\ guard' = finish(guard, tasks[m].chatId)
                /\ replies'[m].log = replies[m].log
       ]_vars

\* C39 witness: the second of three chunks failed; sendReply has returned
\* with two sendMessage calls made and the task has released the guard.
C39_Witness ==
  \E m \in DOMAIN replies :
    /\ replies[m].ended = "caught"
    /\ Len(replies[m].chunks) = 3 /\ Len(replies[m].log) = 2
    /\ tasks[m].pc = "done" /\ ~isInFlight(guard, tasks[m].chatId)

\* C40: when forwarding a permission decision fails, the entry of the
\* request stays as it was and the user is told that the response could not
\* be sent; a press for an unknown request changes no entry and forwards
\* nothing.
C40_FailedDecisionKeepsEntry ==
  [][/\ (lastEvent'.op = "replyToPermission" /\ lastEvent'.action = "failed")
        => /\ pendingPermissions' = pendingPermissions
           /\ \E msg \in sent' : msg.kind = "Failed to send response."
           /\ \A msg \in sent' : msg.kind = "Failed to send response."
     /\ (/\ lastEvent'.op = "callback_query"
         /\ lastEvent'.action \in PermissionReplies
         /\ lastEvent'.requestId \notin DOMAIN pendingPermissions)
        => /\ pendingPermissions' = pendingPermissions
           /\ calls' = {} /\ handlers' = handlers
           /\ \A msg \in sent' : msg.kind = "Permission request not found."
    ]_vars

\* C40 witness: replyToPermission has failed for a request of the first
\* chat; the entry of the request is still there and the user has been told
\* "Failed to send response.".
C40_Witness ==
  /\ lastEvent.op = "replyToPermission" /\ lastEvent.action = "failed"
  /\ lastEvent.requestId \in DOMAIN pendingPermissions
  /\ \E msg \in sent : msg.kind = "Failed to send response."

====
